---- MODULE Spec2Model ----
(***************************************************************************)
(* The edit-tracking-to-SQL mutation pipeline of data-peek:                *)
(*   - the renderer's edit store (useEditStore): per-tab sparse diff of    *)
(*     modified cells, deletion marks, new-row drafts and row snapshots;   *)
(*   - buildEditBatch, which turns one tab's diff into an EditBatch;       *)
(*   - the main process's 'db:execute' handler, which applies an EditBatch *)
(*     inside one PostgreSQL transaction.                                  *)
(*                                                                         *)
(* JavaScript values are tagged records, so that === is TLA+ equality.     *)
(* JavaScript strings that the code takes apart (the cell keys             *)
(* `${rowIndex}:${columnName}`) are sequences of one-character strings.    *)
(* A JavaScript Map is a sequence of [key, value] entries in insertion     *)
(* order, a JavaScript Set a duplicate-free sequence in insertion order.   *)
(***************************************************************************)
EXTENDS Integers, Sequences, FiniteSets, TLC

VARIABLES
    tabEdits,     \* useEditStore's tabEdits: tabId -> TabEditState (a partial map)
    builtBatch,   \* what the latest buildEditBatch call returned, NotBuilt once the store changed
    pc,           \* where the 'db:execute' handler stands
    batch,        \* the EditBatch the handler was invoked with
    opIndex,      \* the operation the handler's loop is at
    result,       \* the handler's EditResult
    thrown,       \* the error the handler's outer catch has caught
    response,     \* the IpcResponse the handler returned
    queries,      \* what the handler has sent through client.query, in order
    connection,   \* the pg client's connection
    transaction,  \* the connection's transaction: none, open or aborted
    pending,      \* ids of the operations whose statements took effect in the transaction
    committed,    \* ids of the operations whose changes the database has persisted
    commit,       \* where handleConfirmCommit stands, and the store as it found it
    calledTab     \* the tabId of the latest store call, where two tabs are followed

storeVars == <<tabEdits, builtBatch>>

rendererVars == <<tabEdits, builtBatch, commit, calledTab>>

executeVars == <<pc, batch, opIndex, result, thrown, response, queries,
                 connection, transaction, pending, committed>>

vars == <<tabEdits, builtBatch, pc, batch, opIndex, result, thrown, response, queries,
          connection, transaction, pending, committed, commit, calledTab>>

----------------------------------------------------------------------------
(* JavaScript values *)

Null == [kind |-> "null"]

Undefined == [kind |-> "undefined"]

Str(s) == [kind |-> "string", s |-> s]

Num(n) == [kind |-> "number", n |-> n]

EmptyString == Str("")

NotBuilt == [kind |-> "notBuilt"]

\* obj[name] of a JavaScript object: undefined when the property is absent
Prop(obj, name) == IF name \in DOMAIN obj THEN obj[name] ELSE Undefined

----------------------------------------------------------------------------
(* JavaScript strings as character sequences *)

Digit(d) == CASE d = 0 -> "0" [] d = 1 -> "1" [] d = 2 -> "2" [] d = 3 -> "3"
              [] d = 4 -> "4" [] d = 5 -> "5" [] d = 6 -> "6" [] d = 7 -> "7"
              [] d = 8 -> "8" [] d = 9 -> "9"

DigitValue(ch) == CASE ch = "0" -> 0 [] ch = "1" -> 1 [] ch = "2" -> 2 [] ch = "3" -> 3
                    [] ch = "4" -> 4 [] ch = "5" -> 5 [] ch = "6" -> 6 [] ch = "7" -> 7
                    [] ch = "8" -> 8 [] ch = "9" -> 9

IsDigit(ch) == ch \in {"0", "1", "2", "3", "4", "5", "6", "7", "8", "9"}

\* `${n}` for a non-negative integer n
RECURSIVE NumberToString(_)
NumberToString(n) ==
    IF n < 10 THEN <<Digit(n)>> ELSE NumberToString(n \div 10) \o <<Digit(n % 10)>>

\* s.startsWith(prefix)
StartsWith(s, prefix) ==
    /\ Len(prefix) <= Len(s)
    /\ \A i \in 1..Len(prefix) : s[i] = prefix[i]

\* s.split(':'): the segments between the colons
RECURSIVE SplitColon(_)
SplitColon(s) ==
    IF \A i \in 1..Len(s) : s[i] # ":"
    THEN <<s>>
    ELSE LET p == CHOOSE i \in 1..Len(s) : s[i] = ":" /\ \A j \in 1..(i - 1) : s[j] # ":"
         IN  <<SubSeq(s, 1, p - 1)>> \o SplitColon(SubSeq(s, p + 1, Len(s)))

\* parseInt(s) of a string that starts with a digit: the leading digits' value
RECURSIVE ParseDigits(_, _)
ParseDigits(s, acc) ==
    IF s = <<>> \/ ~IsDigit(Head(s)) THEN acc
    ELSE ParseDigits(Tail(s), 10 * acc + DigitValue(Head(s)))

parseInt(s) == ParseDigits(s, 0)

\* the key of modifiedCells: `${rowIndex}:${columnName}`
cellKey(rowIndex, columnName) == NumberToString(rowIndex) \o <<":">> \o columnName

\* mutant: the prefix is the row index without the colon
rowPrefix_NoColon(rowIndex) == NumberToString(rowIndex)

\* the prefix the code scans the keys for: `${rowIndex}:`
rowPrefix(rowIndex) == NumberToString(rowIndex) \o <<":">>

----------------------------------------------------------------------------
(* JavaScript Map and Set, in insertion order *)

MapKeys(m) == [i \in 1..Len(m) |-> m[i].key]

MapHas(m, k) == \E i \in 1..Len(m) : m[i].key = k

MapGet(m, k) ==
    IF MapHas(m, k) THEN m[CHOOSE i \in 1..Len(m) : m[i].key = k].value ELSE Undefined

\* Map.set: an existing key keeps its place, a new key goes last
MapSet(m, k, v) ==
    IF MapHas(m, k)
    THEN [i \in 1..Len(m) |-> IF m[i].key = k THEN [key |-> k, value |-> v] ELSE m[i]]
    ELSE Append(m, [key |-> k, value |-> v])

MapDelete(m, k) == SelectSeq(m, LAMBDA e : e.key # k)

SetHas(s, x) == \E i \in 1..Len(s) : s[i] = x

\* Set.add: an element already present keeps its place
SetAdd(s, x) == IF SetHas(s, x) THEN s ELSE Append(s, x)

SetDelete(s, x) == SelectSeq(s, LAMBDA y : y # x)

\* originalRows: Map<number, row>; never iterated, so a function on its keys
RowsHas(rows, rowIndex) == rowIndex \in DOMAIN rows

RowsSet(rows, rowIndex, row) ==
    [r \in (DOMAIN rows) \cup {rowIndex} |-> IF r = rowIndex THEN row ELSE rows[r]]

RowsDelete(rows, rowIndex) == [r \in (DOMAIN rows) \ {rowIndex} |-> rows[r]]

EmptyRows == [r \in {} |-> Null]

----------------------------------------------------------------------------
(* The inputs the model draws from *)

NumSeeds == 2   \* how many different outcomes a run of crypto.randomUUID() calls has

Tabs == {"t1"}

RowIndices == {1, 11}

ColId == <<"i", "d">>

ColEmail == <<"e", "m">>

ColumnNames == {ColId, ColEmail}

\* the ColumnInfo[] that handlePreviewSql / handleConfirmCommit derive from columnDefs
TableColumns ==
    << [name |-> ColId, dataType |-> "integer"], [name |-> ColEmail, dataType |-> "text"] >>

\* EditContext of the previewed table
UsersContext ==
    [kind |-> "context", schema |-> "public", table |-> "users", primaryKeyColumns |-> <<ColId>>]

Contexts == {UsersContext}

Row(id, email) == (ColId :> id) @@ (ColEmail :> email)

\* row.original at a row index of the grid: as first fetched, and (row 1) after a refresh
RowVersions(rowIndex) ==
    IF rowIndex = 1 THEN {Row(Num(1), Null), Row(Num(3), Str("a"))}
    ELSE {Row(Num(2), EmptyString)}

\* the columns of a grid row whose cells get edited
EditedColumns(rowIndex) == IF rowIndex = 1 THEN {ColId, ColEmail} ELSE {ColEmail}

\* the values a caller passes to updateCellValue for a column
SampleValues(columnName) ==
    IF columnName = ColId THEN {Num(7)} ELSE {Null, EmptyString, Str("a")}

\* what the user can leave in an EditableCell's <input>
InputTexts == {"", "NULL", "a"}

Seeds == 1..NumSeeds

\* the n-th UUID that crypto.randomUUID() returns in a run of calls with outcome `seed`
randomUUID(seed, n) == [seed |-> seed, n |-> n]

\* the UUIDs addNewRow's crypto.randomUUID() call returns
DraftIds == {randomUUID(1, 0), randomUUID(2, 0)}

----------------------------------------------------------------------------
(* editable-cell.tsx *)

\* parseValue for a column whose dataType names no number, boolean or JSON type
parseValue(value, dataType) ==
    IF value = "" \/ value = "NULL" THEN Null ELSE Str(value)

----------------------------------------------------------------------------
(* useEditStore: state *)

getInitialTabEditState ==
    [ isEditMode        |-> FALSE,
      context           |-> Null,
      editingCell       |-> Null,
      deletedRowIndices |-> <<>>,
      newRows           |-> <<>>,
      originalRows      |-> EmptyRows,
      modifiedCells     |-> <<>> ]

HasTab(tabId) == tabId \in DOMAIN tabEdits

\* state.tabEdits.get(tabId) ?? getInitialTabEditState()
ExistingOrInitial(tabId) == IF HasTab(tabId) THEN tabEdits[tabId] ELSE getInitialTabEditState

\* mutant: the tabs share one state object
SetTab_Shared(tabId, tabEdit) ==
    tabEdits' = [t \in (DOMAIN tabEdits) \cup {tabId} |-> tabEdit]

\* newTabEdits.set(tabId, tabEdit); return { tabEdits: newTabEdits }
SetTab(tabId, tabEdit) ==
    tabEdits' = [t \in (DOMAIN tabEdits) \cup {tabId} |->
                    IF t = tabId THEN tabEdit ELSE tabEdits[t]]

\* a batch a caller holds stays the store's batch only while the store is unchanged
StoreCalled(tabId) ==
    /\ builtBatch' = IF tabEdits' = tabEdits THEN builtBatch ELSE NotBuilt
    /\ calledTab' = tabId
    /\ UNCHANGED executeVars
    /\ UNCHANGED commit

----------------------------------------------------------------------------
(* useEditStore: edit mode *)

\* { ...existing, isEditMode: true, context }
enterEditModeState(existing, context) ==
    [existing EXCEPT !.isEditMode = TRUE, !.context = context]

enterEditMode(tabId, context) ==
    /\ SetTab(tabId, enterEditModeState(ExistingOrInitial(tabId), context))
    /\ StoreCalled(tabId)

\* mutant: leaving edit mode drops the session's pending diff
exitEditModeState_Discarding(existing) ==
    [getInitialTabEditState EXCEPT !.context = existing.context]

\* mutant: leaving edit mode keeps the cursor
exitEditModeState_KeepingCursor(existing) == [existing EXCEPT !.isEditMode = FALSE]

\* { ...existing, isEditMode: false, editingCell: null }
exitEditModeState(existing) ==
    [existing EXCEPT !.isEditMode = FALSE, !.editingCell = Null]

exitEditMode(tabId) ==
    /\ IF HasTab(tabId)
       THEN SetTab(tabId, exitEditModeState(tabEdits[tabId]))
       ELSE tabEdits' = tabEdits
    /\ StoreCalled(tabId)

----------------------------------------------------------------------------
(* useEditStore: the edit cursor *)

\* the TabEditState that startCellEdit stores
startCellEditState(existing, rowIndex, columnName) ==
    [existing EXCEPT !.editingCell = [rowIndex |-> rowIndex, columnName |-> columnName]]

startCellEdit(tabId, rowIndex, columnName) ==
    /\ SetTab(tabId, startCellEditState(ExistingOrInitial(tabId), rowIndex, columnName))
    /\ StoreCalled(tabId)

cancelCellEdit(tabId) ==
    /\ IF HasTab(tabId)
       THEN SetTab(tabId, [tabEdits[tabId] EXCEPT !.editingCell = Null])
       ELSE tabEdits' = tabEdits
    /\ StoreCalled(tabId)

----------------------------------------------------------------------------
(* useEditStore: cell edits *)

\* mutant: the strict comparison is lost, only the ''-for-null case is left
isSameAsOriginal_EmptyOnly(value, originalValue) ==
    value = EmptyString /\ originalValue = Null

\* value === originalValue || (value === '' && originalValue === null)
isSameAsOriginal(value, originalValue) ==
    \/ value = originalValue
    \/ (value = EmptyString /\ originalValue = Null)

\* Array.from(modifiedCells.keys()).some((key) => key.startsWith(`${rowIndex}:`))
hasOtherModifications(modifiedCells, rowIndex) ==
    \E i \in 1..Len(modifiedCells) : StartsWith(modifiedCells[i].key, rowPrefix(rowIndex))

\* mutant: the snapshot is stored on every modification, not only when absent
updateCellValueState_Overwrite(existing, rowIndex, columnName, value, originalRow) ==
    LET key == cellKey(rowIndex, columnName)
        originalValue == Prop(originalRow, columnName)
    IN  IF isSameAsOriginal(value, originalValue)
        THEN LET newModifiedCells == MapDelete(existing.modifiedCells, key)
             IN  [existing EXCEPT
                    !.modifiedCells = newModifiedCells,
                    !.originalRows = IF ~hasOtherModifications(newModifiedCells, rowIndex)
                                     THEN RowsDelete(@, rowIndex) ELSE @,
                    !.editingCell = Null]
        ELSE [existing EXCEPT
                !.modifiedCells = MapSet(@, key, value),
                !.originalRows = RowsSet(@, rowIndex, originalRow),
                !.editingCell = Null]

\* the TabEditState that updateCellValue stores
updateCellValueState(existing, rowIndex, columnName, value, originalRow) ==
    LET key == cellKey(rowIndex, columnName)
        originalValue == Prop(originalRow, columnName)
    IN  IF isSameAsOriginal(value, originalValue)
        THEN LET newModifiedCells == MapDelete(existing.modifiedCells, key)
             IN  [existing EXCEPT
                    !.modifiedCells = newModifiedCells,
                    !.originalRows = IF ~hasOtherModifications(newModifiedCells, rowIndex)
                                     THEN RowsDelete(@, rowIndex) ELSE @,
                    !.editingCell = Null]
        ELSE [existing EXCEPT
                !.modifiedCells = MapSet(@, key, value),
                !.originalRows = IF ~RowsHas(@, rowIndex)
                                 THEN RowsSet(@, rowIndex, originalRow) ELSE @,
                !.editingCell = Null]

updateCellValue(tabId, rowIndex, columnName, value, originalRow) ==
    LET new == updateCellValueState(ExistingOrInitial(tabId), rowIndex, columnName,
                                    value, originalRow)
    IN  /\ SetTab(tabId, new)
        /\ StoreCalled(tabId)

\* EditableCell's onSave: the <input>'s text, parsed, goes to updateCellValue
EditableCellSave(tabId, rowIndex, column, editValue, originalRow) ==
    /\ column.dataType = "text"
    /\ updateCellValue(tabId, rowIndex, column.name, parseValue(editValue, column.dataType),
                       originalRow)

revertCellChangeState(existing, rowIndex, columnName) ==
    LET newModifiedCells == MapDelete(existing.modifiedCells, cellKey(rowIndex, columnName))
    IN  [existing EXCEPT
            !.modifiedCells = newModifiedCells,
            !.originalRows = IF /\ ~hasOtherModifications(newModifiedCells, rowIndex)
                                /\ ~SetHas(existing.deletedRowIndices, rowIndex)
                             THEN RowsDelete(@, rowIndex) ELSE @]

revertCellChange(tabId, rowIndex, columnName) ==
    /\ IF HasTab(tabId)
       THEN SetTab(tabId, revertCellChangeState(tabEdits[tabId], rowIndex, columnName))
       ELSE tabEdits' = tabEdits
    /\ StoreCalled(tabId)

\* mutant: the drafts go with the row's changes
revertRowChangesState_DropDrafts(existing, rowIndex) ==
    [existing EXCEPT
        !.modifiedCells = SelectSeq(@, LAMBDA e : ~StartsWith(e.key, rowPrefix(rowIndex))),
        !.deletedRowIndices = SetDelete(@, rowIndex),
        !.originalRows = RowsDelete(@, rowIndex),
        !.newRows = <<>>]

revertRowChangesState(existing, rowIndex) ==
    [existing EXCEPT
        !.modifiedCells = SelectSeq(@, LAMBDA e : ~StartsWith(e.key, rowPrefix(rowIndex))),
        !.deletedRowIndices = SetDelete(@, rowIndex),
        !.originalRows = RowsDelete(@, rowIndex)]

revertRowChanges(tabId, rowIndex) ==
    /\ IF HasTab(tabId)
       THEN SetTab(tabId, revertRowChangesState(tabEdits[tabId], rowIndex))
       ELSE tabEdits' = tabEdits
    /\ StoreCalled(tabId)

\* mutant: the drafts are left in place
revertAllChangesState_KeepDrafts(existing) ==
    [existing EXCEPT
        !.modifiedCells = <<>>,
        !.deletedRowIndices = <<>>,
        !.originalRows = EmptyRows]

revertAllChangesState(existing) ==
    [existing EXCEPT
        !.modifiedCells = <<>>,
        !.deletedRowIndices = <<>>,
        !.originalRows = EmptyRows,
        !.newRows = <<>>]

revertAllChanges(tabId) ==
    /\ IF HasTab(tabId)
       THEN SetTab(tabId, revertAllChangesState(tabEdits[tabId]))
       ELSE tabEdits' = tabEdits
    /\ StoreCalled(tabId)

----------------------------------------------------------------------------
(* useEditStore: row deletion marks *)

\* mutant: the mark is set without a snapshot of the row
markRowForDeletionState_NoSnapshot(existing, rowIndex, originalRow) ==
    [existing EXCEPT !.deletedRowIndices = SetAdd(@, rowIndex)]

markRowForDeletionState(existing, rowIndex, originalRow) ==
    [existing EXCEPT
        !.deletedRowIndices = SetAdd(@, rowIndex),
        !.originalRows = IF ~RowsHas(@, rowIndex) THEN RowsSet(@, rowIndex, originalRow) ELSE @]

markRowForDeletion(tabId, rowIndex, originalRow) ==
    /\ SetTab(tabId, markRowForDeletionState(ExistingOrInitial(tabId), rowIndex, originalRow))
    /\ StoreCalled(tabId)

unmarkRowForDeletionState(existing, rowIndex) ==
    [existing EXCEPT !.deletedRowIndices = SetDelete(@, rowIndex)]

unmarkRowForDeletion(tabId, rowIndex) ==
    /\ IF HasTab(tabId)
       THEN SetTab(tabId, unmarkRowForDeletionState(tabEdits[tabId], rowIndex))
       ELSE tabEdits' = tabEdits
    /\ StoreCalled(tabId)

----------------------------------------------------------------------------
(* useEditStore: new-row drafts *)

\* handleAddRow's defaultValues: null for every column of columnDefs
defaultValues == [c \in ColumnNames |-> Null]

addNewRowState(existing, id, values) ==
    [existing EXCEPT !.newRows = Append(@, [id |-> id, values |-> values])]

addNewRow(tabId, id, values) ==
    LET existing == ExistingOrInitial(tabId)
    IN  /\ \A i \in 1..Len(existing.newRows) : existing.newRows[i].id # id
        /\ SetTab(tabId, addNewRowState(existing, id, values))
        /\ StoreCalled(tabId)

updateNewRowValueState(existing, rowId, columnName, value) ==
    [existing EXCEPT !.newRows =
        [i \in 1..Len(@) |->
            IF @[i].id = rowId
            THEN [@[i] EXCEPT !.values =
                    [c \in (DOMAIN @) \cup {columnName} |-> IF c = columnName THEN value ELSE @[c]]]
            ELSE @[i]]]

updateNewRowValue(tabId, rowId, columnName, value) ==
    /\ IF HasTab(tabId)
       THEN SetTab(tabId, updateNewRowValueState(tabEdits[tabId], rowId, columnName, value))
       ELSE tabEdits' = tabEdits
    /\ StoreCalled(tabId)

removeNewRowState(existing, rowId) ==
    [existing EXCEPT !.newRows = SelectSeq(@, LAMBDA r : r.id # rowId)]

removeNewRow(tabId, rowId) ==
    /\ IF HasTab(tabId)
       THEN SetTab(tabId, removeNewRowState(tabEdits[tabId], rowId))
       ELSE tabEdits' = tabEdits
    /\ StoreCalled(tabId)

----------------------------------------------------------------------------
(* useEditStore: buildEditBatch *)

\* columns.find((c) => c.name === name)?.dataType ?? 'text'
dataTypeOf(columns, name) ==
    IF \E i \in 1..Len(columns) : columns[i].name = name
    THEN columns[CHOOSE i \in 1..Len(columns) :
                    columns[i].name = name /\ \A j \in 1..(i - 1) : columns[j].name # name].dataType
    ELSE "text"

RECURSIVE AscendingSeq(_)
AscendingSeq(S) ==
    IF S = {} THEN <<>>
    ELSE LET m == CHOOSE x \in S : \A y \in S : x <= y
         IN  <<m>> \o AscendingSeq(S \ {m})

\* mutant: the modified rows are visited in ascending rowIndex
modifiedRowIndices_Ascending(keys) ==
    AscendingSeq({parseInt(SplitColon(keys[i])[1]) : i \in 1..Len(keys)})

\* the Set<number> filled from modifiedCells.keys(): parseInt(key.split(':')[0]) of each key
RECURSIVE modifiedRowIndices(_)
modifiedRowIndices(keys) ==
    IF keys = <<>> THEN <<>>
    ELSE SetAdd(modifiedRowIndices(SubSeq(keys, 1, Len(keys) - 1)),
                parseInt(SplitColon(keys[Len(keys)])[1]))

\* the CellChange[] of one row: every entry whose key starts with `${rowIndex}:`
changesOf(modifiedCells, rowIndex, originalRow, columns) ==
    LET entries == SelectSeq(modifiedCells, LAMBDA e : StartsWith(e.key, rowPrefix(rowIndex)))
    IN  [i \in 1..Len(entries) |->
            LET columnName == SplitColon(entries[i].key)[2]
            IN  [ column   |-> columnName,
                  oldValue |-> Prop(originalRow, columnName),
                  newValue |-> entries[i].value,
                  dataType |-> dataTypeOf(columns, columnName) ]]

\* mutant: the key is read from the row as edited
primaryKeyValue_Edited(originalRow, modifiedCells, rowIndex, pkCol) ==
    IF MapHas(modifiedCells, cellKey(rowIndex, pkCol))
    THEN MapGet(modifiedCells, cellKey(rowIndex, pkCol))
    ELSE Prop(originalRow, pkCol)

\* value: originalRow[pkCol] (modifiedCells is in scope in buildEditBatch and is not consulted)
primaryKeyValue(originalRow, modifiedCells, rowIndex, pkCol) == Prop(originalRow, pkCol)

\* mutant: for a context without primary key the first column stands in as the key
primaryKeysOf_FirstColumnFallback(context, columns, originalRow, modifiedCells, rowIndex) ==
    LET keyColumns == IF context.primaryKeyColumns = <<>> THEN <<columns[1].name>>
                      ELSE context.primaryKeyColumns
    IN  [i \in 1..Len(keyColumns) |->
            [ column   |-> keyColumns[i],
              value    |-> primaryKeyValue(originalRow, modifiedCells, rowIndex, keyColumns[i]),
              dataType |-> dataTypeOf(columns, keyColumns[i]) ]]

\* context.primaryKeyColumns.map((pkCol) => ({ column, value: originalRow[pkCol], dataType }))
primaryKeysOf(context, columns, originalRow, modifiedCells, rowIndex) ==
    [i \in 1..Len(context.primaryKeyColumns) |->
        LET pkCol == context.primaryKeyColumns[i]
        IN  [ column   |-> pkCol,
              value    |-> primaryKeyValue(originalRow, modifiedCells, rowIndex, pkCol),
              dataType |-> dataTypeOf(columns, pkCol) ]]

\* mutant: an Insert gets a fresh UUID like an Update and a Delete
insertId_Random(newRow, seed, n) == randomUUID(seed, n)

\* an Insert's id: the draft's (no crypto.randomUUID() call)
insertId(newRow, seed, n) == newRow.id

\* the rows the first loop emits an Update for, in the order it visits them
updateRowOrder(tabEdit, columns) ==
    SelectSeq(modifiedRowIndices(MapKeys(tabEdit.modifiedCells)),
              LAMBDA rowIndex :
                /\ ~SetHas(tabEdit.deletedRowIndices, rowIndex)
                /\ RowsHas(tabEdit.originalRows, rowIndex)
                /\ Len(changesOf(tabEdit.modifiedCells, rowIndex,
                                 tabEdit.originalRows[rowIndex], columns)) > 0)

\* the rows the second loop emits a Delete for, in the order it visits them
deleteRowOrder(tabEdit) ==
    SelectSeq(tabEdit.deletedRowIndices, LAMBDA rowIndex : RowsHas(tabEdit.originalRows, rowIndex))

\* the operations array; the k-th crypto.randomUUID() call of the run returns randomUUID(seed, k)
operationsOf(tabEdit, columns, seed) ==
    LET updateRows == updateRowOrder(tabEdit, columns)
        deleteRows == deleteRowOrder(tabEdit)
        updates == [i \in 1..Len(updateRows) |->
            LET originalRow == tabEdit.originalRows[updateRows[i]]
            IN  [ type        |-> "update",
                  id          |-> randomUUID(seed, i),
                  primaryKeys |-> primaryKeysOf(tabEdit.context, columns, originalRow,
                                                tabEdit.modifiedCells, updateRows[i]),
                  changes     |-> changesOf(tabEdit.modifiedCells, updateRows[i],
                                            originalRow, columns),
                  originalRow |-> originalRow ]]
        deletes == [i \in 1..Len(deleteRows) |->
            LET originalRow == tabEdit.originalRows[deleteRows[i]]
            IN  [ type        |-> "delete",
                  id          |-> randomUUID(seed, Len(updateRows) + i),
                  primaryKeys |-> primaryKeysOf(tabEdit.context, columns, originalRow,
                                                tabEdit.modifiedCells, deleteRows[i]),
                  originalRow |-> originalRow ]]
        inserts == [i \in 1..Len(tabEdit.newRows) |->
            [ type    |-> "insert",
              id      |-> insertId(tabEdit.newRows[i], seed, Len(updateRows) + Len(deleteRows) + i),
              values  |-> tabEdit.newRows[i].values,
              columns |-> [j \in 1..Len(columns) |->
                              [name |-> columns[j].name, dataType |-> columns[j].dataType]] ]]
    IN  updates \o deletes \o inserts

\* mutant: the batch is returned whatever the length of its operations array
buildEditBatchOf_NoNullCheck(tabEdit, columns, seed) ==
    IF tabEdit = Undefined \/ tabEdit.context = Null THEN Null
    ELSE [kind |-> "batch", context |-> tabEdit.context,
          operations |-> operationsOf(tabEdit, columns, seed)]

\* buildEditBatch's result for the tab's state (Undefined: the tab has none)
buildEditBatchOf(tabEdit, columns, seed) ==
    IF tabEdit = Undefined \/ tabEdit.context = Null THEN Null
    ELSE LET operations == operationsOf(tabEdit, columns, seed)
         IN  IF Len(operations) = 0 THEN Null
             ELSE [kind |-> "batch", context |-> tabEdit.context, operations |-> operations]

\* get().tabEdits.get(tabId)
GetTab(tabId) == IF HasTab(tabId) THEN tabEdits[tabId] ELSE Undefined

buildEditBatch(tabId, columns, seed) ==
    /\ builtBatch' = [kind |-> "built", tabId |-> tabId,
                      result |-> buildEditBatchOf(GetTab(tabId), columns, seed)]
    /\ UNCHANGED <<tabEdits, calledTab>>
    /\ UNCHANGED executeVars
    /\ UNCHANGED commit

----------------------------------------------------------------------------
(* useEditStore: getPendingChangesCount, clearPendingChanges *)

\* mutant: a modified row is counted whether or not it is marked for deletion
isCountedAsUpdate_All(tabEdit, rowIndex) == TRUE

\* if (!tabEdit.deletedRowIndices.has(rowIndex))
isCountedAsUpdate(tabEdit, rowIndex) == ~SetHas(tabEdit.deletedRowIndices, rowIndex)

\* the Set<number> that getPendingChangesCount fills from modifiedCells.keys()
RECURSIVE countedRowIndices(_, _)
countedRowIndices(tabEdit, keys) ==
    IF keys = <<>> THEN <<>>
    ELSE LET before == countedRowIndices(tabEdit, SubSeq(keys, 1, Len(keys) - 1))
             rowIndex == parseInt(SplitColon(keys[Len(keys)])[1])
         IN  IF isCountedAsUpdate(tabEdit, rowIndex) THEN SetAdd(before, rowIndex) ELSE before

\* getPendingChangesCount's result for the tab's state (Undefined: the tab has none)
getPendingChangesCount(tabEdit) ==
    IF tabEdit = Undefined THEN [updates |-> 0, inserts |-> 0, deletes |-> 0]
    ELSE [ updates |-> Len(countedRowIndices(tabEdit, MapKeys(tabEdit.modifiedCells))),
           inserts |-> Len(tabEdit.newRows),
           deletes |-> Len(tabEdit.deletedRowIndices) ]

\* hasPendingChanges: some count of getPendingChangesCount is positive
hasPendingChanges(tabEdit) ==
    LET counts == getPendingChangesCount(tabEdit)
    IN  counts.updates > 0 \/ counts.inserts > 0 \/ counts.deletes > 0

----------------------------------------------------------------------------
(* sql-builder.ts, which the handler imports *)

\* mutant: only the length of primaryKeys is looked at, an undefined key value passes
validateOperation_LengthOnly(operation) ==
    IF operation.type \in {"update", "delete"}
    THEN IF Len(operation.primaryKeys) = 0
         THEN [valid |-> FALSE, error |-> "no primary key"]
         ELSE [valid |-> TRUE]
    ELSE IF DOMAIN operation.values = {}
         THEN [valid |-> FALSE, error |-> "no values"]
         ELSE [valid |-> TRUE]

\* validateOperation: an Update or Delete needs a non-empty primaryKeys with no undefined
\* value, an Insert a non-empty values map
validateOperation(operation) ==
    IF operation.type \in {"update", "delete"}
    THEN IF Len(operation.primaryKeys) = 0
         THEN [valid |-> FALSE, error |-> "no primary key"]
         ELSE IF \E k \in 1..Len(operation.primaryKeys) : operation.primaryKeys[k].value = Undefined
              THEN [valid |-> FALSE, error |-> "undefined primary key value"]
              ELSE [valid |-> TRUE]
    ELSE IF DOMAIN operation.values = {}
         THEN [valid |-> FALSE, error |-> "no values"]
         ELSE [valid |-> TRUE]

\* the tokens of a statement: a keyword, a quoted identifier, or the n-th placeholder ($n)
Keyword(word) == [kind |-> "keyword", word |-> word]

Identifier(name) == [kind |-> "identifier", name |-> name]

Placeholder(n) == [kind |-> "placeholder", n |-> n]

\* c1 = $from+1 <separator> c2 = $from+2 ...
RECURSIVE Assignments(_, _, _)
Assignments(columns, from, separator) ==
    IF columns = <<>> THEN <<>>
    ELSE LET n == Len(columns)
         IN  Assignments(SubSeq(columns, 1, n - 1), from, separator)
             \o (IF n > 1 THEN <<Keyword(separator)>> ELSE <<>>)
             \o <<Identifier(columns[n]), Keyword("="), Placeholder(from + n)>>

\* mutant: the values are written into the statement text and nothing is bound
buildQuery_Inlined(operation, context) ==
    LET target == <<Identifier(context.schema), Keyword("."), Identifier(context.table)>>
    IN  CASE operation.type = "update" ->
                [ sql |-> <<Keyword("UPDATE")>> \o target \o <<Keyword("SET")>>
                          \o [i \in 1..Len(operation.changes) |->
                                 [kind |-> "literal", value |-> operation.changes[i].newValue]]
                          \o <<Keyword("WHERE")>>
                          \o [i \in 1..Len(operation.primaryKeys) |->
                                 [kind |-> "literal", value |-> operation.primaryKeys[i].value]],
                  params |-> <<>> ]
          [] operation.type = "delete" ->
                [ sql |-> <<Keyword("DELETE FROM")>> \o target \o <<Keyword("WHERE")>>
                          \o [i \in 1..Len(operation.primaryKeys) |->
                                 [kind |-> "literal", value |-> operation.primaryKeys[i].value]],
                  params |-> <<>> ]
          [] operation.type = "insert" ->
                [ sql |-> <<Keyword("INSERT INTO")>> \o target \o <<Keyword("VALUES")>>
                          \o [i \in 1..Len(operation.columns) |->
                                 [kind |-> "literal",
                                  value |-> Prop(operation.values, operation.columns[i].name)]],
                  params |-> <<>> ]

\* buildQuery for the postgresql dialect: one statement, every value a bound parameter
\*   UPDATE s.t SET c1 = $1, c2 = $2 WHERE pk1 = $3 AND pk2 = $4
\*   DELETE FROM s.t WHERE pk1 = $1 AND pk2 = $2
\*   INSERT INTO s.t (c1, c2) VALUES ($1, $2)
buildQuery(operation, context) ==
    LET target == <<Identifier(context.schema), Keyword("."), Identifier(context.table)>>
    IN  CASE operation.type = "update" ->
                LET changed == [i \in 1..Len(operation.changes) |-> operation.changes[i].column]
                    keys == [i \in 1..Len(operation.primaryKeys) |->
                                operation.primaryKeys[i].column]
                IN  [ sql |-> <<Keyword("UPDATE")>> \o target \o <<Keyword("SET")>>
                              \o Assignments(changed, 0, ",")
                              \o <<Keyword("WHERE")>>
                              \o Assignments(keys, Len(changed), "AND"),
                      params |-> [i \in 1..Len(operation.changes) |->
                                     operation.changes[i].newValue]
                                 \o [i \in 1..Len(operation.primaryKeys) |->
                                        operation.primaryKeys[i].value] ]
          [] operation.type = "delete" ->
                LET keys == [i \in 1..Len(operation.primaryKeys) |->
                                operation.primaryKeys[i].column]
                IN  [ sql |-> <<Keyword("DELETE FROM")>> \o target \o <<Keyword("WHERE")>>
                              \o Assignments(keys, 0, "AND"),
                      params |-> [i \in 1..Len(operation.primaryKeys) |->
                                     operation.primaryKeys[i].value] ]
          [] operation.type = "insert" ->
                [ sql |-> <<Keyword("INSERT INTO")>> \o target \o <<Keyword("(")>>
                          \o [i \in 1..Len(operation.columns) |->
                                 Identifier(operation.columns[i].name)]
                          \o <<Keyword(")"), Keyword("VALUES"), Keyword("(")>>
                          \o [i \in 1..Len(operation.columns) |-> Placeholder(i)]
                          \o <<Keyword(")")>>,
                  params |-> [i \in 1..Len(operation.columns) |->
                                 Prop(operation.values, operation.columns[i].name)] ]

\* buildPreviewSql: the statement of an operation, for display
buildPreviewSql(operation, context) ==
    [operationId |-> operation.id, statement |-> operation.type, table |-> context.table]

----------------------------------------------------------------------------
(* ipcMain.handle('db:execute'): one invocation, one step per await *)

MaxOperations == 3   \* at most this many operations in the batch the handler is invoked with

\* an operation of each shape, as buildEditBatch builds them
SampleOperation(shape, id) ==
    CASE shape = "update" ->
            [ type        |-> "update",
              id          |-> id,
              primaryKeys |-> <<[column |-> ColId, value |-> Num(1), dataType |-> "integer"]>>,
              changes     |-> <<[column |-> ColEmail, oldValue |-> Null, newValue |-> Str("a"),
                                 dataType |-> "text"]>>,
              originalRow |-> Row(Num(1), Null) ]
      [] shape = "updateNoKey" ->
            [ type        |-> "update",
              id          |-> id,
              primaryKeys |-> <<>>,
              changes     |-> <<[column |-> ColEmail, oldValue |-> Null, newValue |-> Str("a"),
                                 dataType |-> "text"]>>,
              originalRow |-> Row(Num(1), Null) ]
      [] shape = "delete" ->
            [ type        |-> "delete",
              id          |-> id,
              primaryKeys |-> <<[column |-> ColId, value |-> Num(2), dataType |-> "integer"]>>,
              originalRow |-> Row(Num(2), EmptyString) ]
      [] shape = "deleteUndefinedKey" ->
            [ type        |-> "delete",
              id          |-> id,
              primaryKeys |-> <<[column |-> ColId, value |-> Undefined, dataType |-> "integer"]>>,
              originalRow |-> [c \in {ColEmail} |-> EmptyString] ]
      [] shape = "insertEmpty" ->
            [ type    |-> "insert",
              id      |-> id,
              values  |-> [c \in {} |-> Null],
              columns |-> [j \in 1..Len(TableColumns) |->
                              [name |-> TableColumns[j].name,
                               dataType |-> TableColumns[j].dataType]] ]
      [] shape = "insert" ->
            [ type    |-> "insert",
              id      |-> id,
              values  |-> defaultValues,
              columns |-> [j \in 1..Len(TableColumns) |->
                              [name |-> TableColumns[j].name,
                               dataType |-> TableColumns[j].dataType]] ]

\* the shapes of operations a batch is drawn from: those buildEditBatch builds for a table
\* with and without a primary key, and those in which a key value or the values are missing
OperationShapes ==
    { {"update", "updateNoKey", "delete", "insert"},
      {"update", "deleteUndefinedKey", "insertEmpty"} }

\* the batches the handler is invoked with: every sequence of shapes, ids by position
SampleBatches ==
    UNION { { [ kind       |-> "batch",
                context    |-> UsersContext,
                operations |-> [i \in 1..n |-> SampleOperation(shapes[i], randomUUID(1, i))] ]
              : shapes \in UNION { [1..n -> family] : family \in OperationShapes } }
            : n \in 1..MaxOperations }

\* what a statement does: it affects rowCount rows, or the database rejects it
StatementOutcomes ==
    { [ok |-> TRUE, rowCount |-> 0], [ok |-> TRUE, rowCount |-> 1],
      [ok |-> FALSE, message |-> "violates constraint"] }

\* PostgreSQL rejects every statement of a transaction after one of them has failed
AbortedOutcome == [ok |-> FALSE, message |-> "current transaction is aborted"]

ExecuteIdle ==
    /\ pc = "idle"
    /\ batch = Null
    /\ opIndex = 0
    /\ result = Null
    /\ thrown = Null
    /\ response = Null
    /\ queries = <<>>
    /\ connection = "none"
    /\ transaction = "none"
    /\ pending = {}
    /\ committed = {}

\* const client = new Client(config); const result = { success: true, ... }
DbExecuteInvoked(editBatch) ==
    /\ pc = "idle"
    /\ pc' = "connect"
    /\ batch' = editBatch
    /\ result' = [success |-> TRUE, rowsAffected |-> 0, executedSql |-> <<>>, errors |-> <<>>]
    /\ connection' = "new"
    /\ UNCHANGED <<opIndex, thrown, response, queries, transaction, pending, committed>>

\* the handler invoked on its own
DbExecute(editBatch) ==
    /\ DbExecuteInvoked(editBatch)
    /\ UNCHANGED rendererVars

\* an await that rejects inside the try block: control goes to the outer catch
Throw(message) ==
    /\ pc' = "catchRollback"
    /\ thrown' = Str(message)

\* mutant: the loop is left at the first recorded error
AfterOperation_StopAtError ==
    /\ opIndex' = opIndex + 1
    /\ pc' = IF Len(result'.errors) > 0 \/ opIndex + 1 > Len(batch.operations)
             THEN "finish" ELSE "loop"

\* where the loop goes after the operation at opIndex
AfterOperation ==
    /\ opIndex' = opIndex + 1
    /\ pc' = IF opIndex + 1 > Len(batch.operations) THEN "finish" ELSE "loop"

\* await client.connect()
Connect(ok) ==
    /\ pc = "connect"
    /\ IF ok
       THEN /\ connection' = "connected"
            /\ pc' = "begin"
            /\ UNCHANGED thrown
       ELSE /\ Throw("connect failed")
            /\ UNCHANGED connection
    /\ UNCHANGED <<batch, opIndex, result, response, queries, transaction, pending, committed>>
    /\ UNCHANGED rendererVars

\* await client.query('BEGIN')
Begin(ok) ==
    /\ pc = "begin"
    /\ queries' = Append(queries, [sql |-> "BEGIN"])
    /\ IF ok
       THEN /\ transaction' = "open"
            /\ opIndex' = 1
            /\ pc' = IF Len(batch.operations) = 0 THEN "finish" ELSE "loop"
            /\ UNCHANGED thrown
       ELSE /\ Throw("BEGIN failed")
            /\ UNCHANGED <<transaction, opIndex>>
    /\ UNCHANGED <<batch, result, response, connection, pending, committed>>
    /\ UNCHANGED rendererVars

\* mutant: the `continue` is missing, the rejected operation goes on to execution
SkipInvalid_FallThrough ==
    /\ pc = "loop"
    /\ ~validateOperation(batch.operations[opIndex]).valid
    /\ result' = [result EXCEPT !.errors =
                    Append(@, [operationId |-> batch.operations[opIndex].id,
                               message |-> validateOperation(batch.operations[opIndex]).error])]
    /\ queries' = Append(queries, [sql |-> batch.operations[opIndex].type,
                                   operationId |-> batch.operations[opIndex].id,
                                   rejected |-> TRUE])
    /\ transaction' = "aborted"
    /\ AfterOperation
    /\ UNCHANGED <<batch, thrown, response, connection, pending, committed>>
    /\ UNCHANGED rendererVars

\* the loop body for an operation that validateOperation rejects: record, continue
SkipInvalid ==
    /\ pc = "loop"
    /\ ~validateOperation(batch.operations[opIndex]).valid
    /\ result' = [result EXCEPT !.errors =
                    Append(@, [operationId |-> batch.operations[opIndex].id,
                               message |-> validateOperation(batch.operations[opIndex]).error])]
    /\ AfterOperation
    /\ UNCHANGED <<batch, thrown, response, queries, connection, transaction, pending, committed>>
    /\ UNCHANGED rendererVars

\* mutant: a statement that affects no row is recorded as an error of its operation
ExecuteOperation_ZeroRowsIsError(outcome) ==
    /\ pc = "loop"
    /\ validateOperation(batch.operations[opIndex]).valid
    /\ transaction = "aborted" => outcome = AbortedOutcome
    /\ transaction # "aborted" => outcome \in StatementOutcomes
    /\ LET operation == batch.operations[opIndex]
           pushed == [result EXCEPT !.executedSql =
                        Append(@, buildPreviewSql(operation, batch.context))]
           query == buildQuery(operation, batch.context)
       IN  /\ queries' = Append(queries, [sql |-> operation.type, operationId |-> operation.id,
                                           text |-> query.sql, params |-> query.params,
                                           rejected |-> ~outcome.ok,
                                           rowCount |-> IF outcome.ok THEN outcome.rowCount
                                                        ELSE 0])
           /\ IF outcome.ok
              THEN /\ result' = IF outcome.rowCount = 0
                                THEN [pushed EXCEPT !.errors =
                                        Append(@, [operationId |-> operation.id,
                                                   message |-> "no rows affected"])]
                                ELSE [pushed EXCEPT !.rowsAffected = @ + outcome.rowCount]
                   /\ pending' = pending \cup {operation.id}
                   /\ UNCHANGED transaction
              ELSE /\ result' = [pushed EXCEPT !.errors =
                                    Append(@, [operationId |-> operation.id,
                                               message |-> outcome.message])]
                   /\ transaction' = "aborted"
                   /\ UNCHANGED pending
    /\ AfterOperation
    /\ UNCHANGED <<batch, thrown, response, connection, committed>>
    /\ UNCHANGED rendererVars

\* mutant: the statements of the operations that are left are sent together, as with
\* Promise.all over the rest of the batch
ExecuteOperation_AllAtOnce(outcome) ==
    /\ pc = "loop"
    /\ validateOperation(batch.operations[opIndex]).valid
    /\ transaction = "aborted" => outcome = AbortedOutcome
    /\ transaction # "aborted" => outcome \in StatementOutcomes
    /\ LET rest == SelectSeq(SubSeq(batch.operations, opIndex, Len(batch.operations)),
                             LAMBDA o : validateOperation(o).valid)
       IN  /\ queries' = queries \o
                 [i \in 1..Len(rest) |->
                     [sql |-> rest[i].type, operationId |-> rest[i].id, rejected |-> ~outcome.ok]]
           /\ IF outcome.ok
              THEN /\ result' = [result EXCEPT !.rowsAffected = @ + outcome.rowCount * Len(rest)]
                   /\ pending' = pending \cup { rest[i].id : i \in 1..Len(rest) }
                   /\ UNCHANGED transaction
              ELSE /\ result' = [result EXCEPT !.errors = @ \o
                                    [i \in 1..Len(rest) |->
                                        [operationId |-> rest[i].id, message |-> outcome.message]]]
                   /\ transaction' = "aborted"
                   /\ UNCHANGED pending
    /\ opIndex' = Len(batch.operations) + 1
    /\ pc' = "finish"
    /\ UNCHANGED <<batch, thrown, response, connection, committed>>
    /\ UNCHANGED rendererVars

\* mutant: the inner try/catch is missing, a rejected statement throws out of the loop
ExecuteOperation_Rethrowing(outcome) ==
    /\ pc = "loop"
    /\ validateOperation(batch.operations[opIndex]).valid
    /\ transaction = "aborted" => outcome = AbortedOutcome
    /\ transaction # "aborted" => outcome \in StatementOutcomes
    /\ LET operation == batch.operations[opIndex]
           pushed == [result EXCEPT !.executedSql =
                        Append(@, buildPreviewSql(operation, batch.context))]
           query == buildQuery(operation, batch.context)
       IN  /\ queries' = Append(queries, [sql |-> operation.type, operationId |-> operation.id,
                                           text |-> query.sql, params |-> query.params,
                                           rejected |-> ~outcome.ok,
                                           rowCount |-> IF outcome.ok THEN outcome.rowCount
                                                        ELSE 0])
           /\ IF outcome.ok
              THEN /\ result' = [pushed EXCEPT !.rowsAffected = @ + outcome.rowCount]
                   /\ pending' = pending \cup {operation.id}
                   /\ AfterOperation
                   /\ UNCHANGED <<transaction, thrown>>
              ELSE /\ result' = pushed
                   /\ transaction' = "aborted"
                   /\ Throw(outcome.message)
                   /\ UNCHANGED <<pending, opIndex>>
    /\ UNCHANGED <<batch, response, connection, committed>>
    /\ UNCHANGED rendererVars

\* the loop body for a valid operation: buildQuery, buildPreviewSql, await client.query(...)
ExecuteOperation(outcome) ==
    /\ pc = "loop"
    /\ validateOperation(batch.operations[opIndex]).valid
    /\ transaction = "aborted" => outcome = AbortedOutcome
    /\ transaction # "aborted" => outcome \in StatementOutcomes
    /\ LET operation == batch.operations[opIndex]
           pushed == [result EXCEPT !.executedSql =
                        Append(@, buildPreviewSql(operation, batch.context))]
           query == buildQuery(operation, batch.context)
       IN  /\ queries' = Append(queries, [sql |-> operation.type, operationId |-> operation.id,
                                           text |-> query.sql, params |-> query.params,
                                           rejected |-> ~outcome.ok,
                                           rowCount |-> IF outcome.ok THEN outcome.rowCount
                                                        ELSE 0])
           /\ IF outcome.ok
              THEN /\ result' = [pushed EXCEPT !.rowsAffected = @ + outcome.rowCount]
                   /\ pending' = pending \cup {operation.id}
                   /\ UNCHANGED transaction
              ELSE /\ result' = [pushed EXCEPT !.errors =
                                    Append(@, [operationId |-> operation.id,
                                               message |-> outcome.message])]
                   /\ transaction' = "aborted"
                   /\ UNCHANGED pending
    /\ AfterOperation
    /\ UNCHANGED <<batch, thrown, response, connection, committed>>
    /\ UNCHANGED rendererVars

\* mutant: the decision reads the success flag, which is still true after the loop
hasErrors_SuccessFlag(editResult) == ~editResult.success

\* result.errors && result.errors.length > 0
hasErrors(editResult) == Len(editResult.errors) > 0

\* mutant: a rolled-back batch reports no affected rows
rolledBack_ResettingRows(editResult) ==
    [editResult EXCEPT !.success = FALSE, !.rowsAffected = 0]

\* mutant: the success flag is left as it was
rolledBack_FlagKept(editResult) == editResult

\* result.success = false
rolledBack(editResult) == [editResult EXCEPT !.success = FALSE]

\* await client.query('ROLLBACK'); result.success = false
Rollback(ok) ==
    /\ pc = "finish"
    /\ hasErrors(result)
    /\ queries' = Append(queries, [sql |-> "ROLLBACK"])
    /\ IF ok
       THEN /\ transaction' = "none"
            /\ pending' = {}
            /\ result' = rolledBack(result)
            /\ pc' = "end"
            /\ UNCHANGED thrown
       ELSE /\ Throw("ROLLBACK failed")
            /\ UNCHANGED <<transaction, pending, result>>
    /\ UNCHANGED <<batch, opIndex, response, connection, committed>>
    /\ UNCHANGED rendererVars

\* await client.query('COMMIT'): PostgreSQL persists an open transaction and rolls an
\* aborted one back; a COMMIT that fails persists nothing
Commit(ok) ==
    /\ pc = "finish"
    /\ ~hasErrors(result)
    /\ queries' = Append(queries, [sql |-> "COMMIT"])
    /\ transaction' = "none"
    /\ pending' = {}
    /\ IF ok
       THEN /\ committed' = IF transaction = "open" THEN committed \cup pending ELSE committed
            /\ pc' = "end"
            /\ UNCHANGED thrown
       ELSE /\ Throw("COMMIT failed")
            /\ UNCHANGED committed
    /\ UNCHANGED <<batch, opIndex, result, response, connection>>
    /\ UNCHANGED rendererVars

\* await client.end(); return { success: true, data: result }
End(ok) ==
    /\ pc = "end"
    /\ IF ok
       THEN /\ connection' = "ended"
            /\ response' = [success |-> TRUE, data |-> result]
            /\ pc' = "returned"
            /\ UNCHANGED thrown
       ELSE /\ Throw("end failed")
            /\ UNCHANGED <<connection, response>>
    /\ UNCHANGED <<batch, opIndex, result, queries, transaction, pending, committed>>
    /\ UNCHANGED rendererVars

\* mutant: the failure of the best-effort ROLLBACK becomes the error that is reported
swallowed_Replacing(caught, own) == own

\* .catch(() => {}): the rejection is dropped, the caught error stays the one reported
swallowed(caught, own) == caught

\* catch: await client.query('ROLLBACK').catch(() => {})
CatchRollback(ok) ==
    /\ pc = "catchRollback"
    /\ queries' = Append(queries, [sql |-> "ROLLBACK", bestEffort |-> TRUE, rejected |-> ~ok])
    /\ IF ok
       THEN /\ transaction' = "none"
            /\ pending' = {}
            /\ UNCHANGED thrown
       ELSE /\ thrown' = swallowed(thrown, Str("best-effort ROLLBACK failed"))
            /\ UNCHANGED <<transaction, pending>>
    /\ pc' = "catchEnd"
    /\ UNCHANGED <<batch, opIndex, result, response, connection, committed>>
    /\ UNCHANGED rendererVars

\* mutant: the catch block returns without client.end()
CatchEnd_NoEnd(ok) ==
    /\ pc = "catchEnd"
    /\ UNCHANGED connection
    /\ transaction' = "none"
    /\ pending' = {}
    /\ response' = [success |-> FALSE, error |-> thrown]
    /\ pc' = "returned"
    /\ UNCHANGED <<batch, opIndex, result, thrown, queries, committed>>
    /\ UNCHANGED rendererVars

\* catch: await client.end().catch(() => {}); return { success: false, error: errorMessage }
\* (a transaction still open when its connection goes is rolled back by the server)
CatchEnd(ok) ==
    /\ pc = "catchEnd"
    /\ connection' = IF ok THEN "ended" ELSE "broken"
    /\ transaction' = "none"
    /\ pending' = {}
    /\ response' = [success |-> FALSE, error |-> thrown]
    /\ pc' = "returned"
    /\ UNCHANGED <<batch, opIndex, result, thrown, queries, committed>>
    /\ UNCHANGED rendererVars

ExecuteNext ==
    \/ \E editBatch \in SampleBatches : DbExecute(editBatch)
    \/ \E ok \in BOOLEAN : Connect(ok)
    \/ \E ok \in BOOLEAN : Begin(ok)
    \/ SkipInvalid
    \/ \E outcome \in StatementOutcomes \cup {AbortedOutcome} : ExecuteOperation(outcome)
    \/ \E ok \in BOOLEAN : Rollback(ok)
    \/ \E ok \in BOOLEAN : Commit(ok)
    \/ \E ok \in BOOLEAN : End(ok)
    \/ \E ok \in BOOLEAN : CatchRollback(ok)
    \/ \E ok \in BOOLEAN : CatchEnd(ok)

----------------------------------------------------------------------------
(* editable-data-table.tsx: handleConfirmCommit *)

CommitIdle == [pc |-> "idle"]

\* EditContext of a table that has no primary key
NoKeyContext ==
    [kind |-> "context", schema |-> "public", table |-> "logs", primaryKeyColumns |-> <<>>]

\* clearPendingChanges: the tab's diff is emptied; mode, context and cursor stay
clearPendingChangesState(existing) ==
    [existing EXCEPT !.modifiedCells = <<>>,
                     !.deletedRowIndices = <<>>,
                     !.originalRows = EmptyRows,
                     !.newRows = <<>>]

clearPendingChanges(tabId) ==
    /\ IF HasTab(tabId)
       THEN SetTab(tabId, clearPendingChangesState(tabEdits[tabId]))
       ELSE tabEdits' = tabEdits
    /\ StoreCalled(tabId)

\* mutant: the transport's success alone decides
commitSucceeded_TransportOnly(ipcResponse) == ipcResponse.success

\* response.success && response.data?.success
commitSucceeded(ipcResponse) == ipcResponse.success /\ ipcResponse.data.success

\* buildEditBatch returned a batch; await window.api.db.execute(connection, batch) is
\* entered and the main process starts the handler
handleConfirmCommit(tabId, seed) ==
    /\ commit.pc = "idle"
    /\ buildEditBatchOf(GetTab(tabId), TableColumns, seed) # Null
    /\ builtBatch' = [kind |-> "built", tabId |-> tabId,
                      result |-> buildEditBatchOf(GetTab(tabId), TableColumns, seed)]
    /\ DbExecuteInvoked(buildEditBatchOf(GetTab(tabId), TableColumns, seed))
    /\ commit' = [pc |-> "awaiting", tabId |-> tabId, before |-> tabEdits]
    /\ UNCHANGED <<tabEdits, calledTab>>

\* window.api.db.execute rejects: catch (error) { console.error }, finally
handleConfirmCommitThrows(tabId, seed) ==
    /\ commit.pc = "idle"
    /\ pc = "idle"
    /\ buildEditBatchOf(GetTab(tabId), TableColumns, seed) # Null
    /\ builtBatch' = [kind |-> "built", tabId |-> tabId,
                      result |-> buildEditBatchOf(GetTab(tabId), TableColumns, seed)]
    /\ commit' = [pc |-> "done", tabId |-> tabId, before |-> tabEdits, outcome |-> "threw"]
    /\ UNCHANGED <<tabEdits, calledTab>>
    /\ UNCHANGED executeVars

\* the await resumes with the handler's response
handleConfirmCommitResumes ==
    /\ commit.pc = "awaiting"
    /\ pc = "returned"
    /\ IF commitSucceeded(response)
       THEN /\ IF HasTab(commit.tabId)
               THEN SetTab(commit.tabId, clearPendingChangesState(tabEdits[commit.tabId]))
               ELSE tabEdits' = tabEdits
            /\ calledTab' = commit.tabId
            /\ commit' = [commit EXCEPT !.pc = "done"] @@ [outcome |-> "cleared"]
       ELSE /\ UNCHANGED <<tabEdits, calledTab>>
            /\ commit' = [commit EXCEPT !.pc = "done"] @@ [outcome |-> "failed"]
    /\ builtBatch' = IF tabEdits' = tabEdits THEN builtBatch ELSE NotBuilt
    /\ UNCHANGED executeVars

----------------------------------------------------------------------------
(* The store under the calls of its callers *)

Init ==
    /\ tabEdits = [t \in {} |-> getInitialTabEditState]
    /\ builtBatch = NotBuilt
    /\ ExecuteIdle
    /\ commit = CommitIdle
    /\ calledTab = "none"

Next ==
    \E tabId \in Tabs :
        \/ \E context \in Contexts : enterEditMode(tabId, context)
        \/ \E rowIndex \in RowIndices :
             \E columnName \in EditedColumns(rowIndex), originalRow \in RowVersions(rowIndex) :
                \E value \in SampleValues(columnName) :
                    updateCellValue(tabId, rowIndex, columnName, value, originalRow)
        \/ \E rowIndex \in RowIndices, i \in 1..Len(TableColumns), editValue \in InputTexts :
             \E originalRow \in RowVersions(rowIndex) :
                /\ TableColumns[i].name \in EditedColumns(rowIndex)
                /\ EditableCellSave(tabId, rowIndex, TableColumns[i], editValue, originalRow)
        \/ \E rowIndex \in RowIndices, columnName \in ColumnNames :
                revertCellChange(tabId, rowIndex, columnName)
        \/ \E rowIndex \in RowIndices : revertRowChanges(tabId, rowIndex)
        \/ revertAllChanges(tabId)
        \/ \E rowIndex \in RowIndices :
             \E originalRow \in RowVersions(rowIndex) :
                markRowForDeletion(tabId, rowIndex, originalRow)
        \/ \E rowIndex \in RowIndices : unmarkRowForDeletion(tabId, rowIndex)
        \/ \E id \in DraftIds : addNewRow(tabId, id, defaultValues)
        \/ updateNewRowValue(tabId, randomUUID(1, 0), ColEmail, Str("a"))
        \/ \E id \in DraftIds : removeNewRow(tabId, id)
        \/ \E seed \in Seeds : buildEditBatch(tabId, TableColumns, seed)

Spec == Init /\ [][Next]_vars

\* one invocation of 'db:execute', on a batch of the shapes buildEditBatch builds
SpecExecute == Init /\ [][ExecuteNext]_vars

\* a session is edited, then handleConfirmCommit sends its batch and handles the response
CommitNext ==
    \/ /\ commit.pc = "idle"
       /\ \E tabId \in Tabs :
            \/ \E context \in {UsersContext, NoKeyContext} : enterEditMode(tabId, context)
            \/ \E rowIndex \in RowIndices :
                 updateCellValue(tabId, rowIndex, ColEmail, Str("b"),
                                 CHOOSE row \in RowVersions(rowIndex) : TRUE)
            \/ \E rowIndex \in RowIndices :
                 markRowForDeletion(tabId, rowIndex, CHOOSE row \in RowVersions(rowIndex) : TRUE)
            \/ addNewRow(tabId, randomUUID(1, 0), defaultValues)
    \/ \E tabId \in Tabs, seed \in Seeds : handleConfirmCommit(tabId, seed)
    \/ \E tabId \in Tabs, seed \in Seeds : handleConfirmCommitThrows(tabId, seed)
    \/ \E ok \in BOOLEAN : Connect(ok)
    \/ \E ok \in BOOLEAN : Begin(ok)
    \/ SkipInvalid
    \/ \E outcome \in StatementOutcomes \cup {AbortedOutcome} : ExecuteOperation(outcome)
    \/ \E ok \in BOOLEAN : Rollback(ok)
    \/ \E ok \in BOOLEAN : Commit(ok)
    \/ \E ok \in BOOLEAN : End(ok)
    \/ \E ok \in BOOLEAN : CatchRollback(ok)
    \/ \E ok \in BOOLEAN : CatchEnd(ok)
    \/ handleConfirmCommitResumes

SpecCommit == Init /\ [][CommitNext]_vars

\* the tabs of the window, each with its own table
TwoTabs == {"t1", "t2"}

\* the store under calls for two tabs, in any interleaving
TabsNext ==
    \E tabId \in TwoTabs :
        \/ enterEditMode(tabId, UsersContext)
        \/ exitEditMode(tabId)
        \/ startCellEdit(tabId, 1, ColEmail)
        \/ cancelCellEdit(tabId)
        \/ \E value \in {Str("b"), Null} :
              updateCellValue(tabId, 1, ColEmail, value, Row(Num(1), Null))
        \/ revertCellChange(tabId, 1, ColEmail)
        \/ revertRowChanges(tabId, 1)
        \/ revertAllChanges(tabId)
        \/ markRowForDeletion(tabId, 1, Row(Num(1), Null))
        \/ unmarkRowForDeletion(tabId, 1)
        \/ addNewRow(tabId, randomUUID(1, 0), defaultValues)
        \/ updateNewRowValue(tabId, randomUUID(1, 0), ColEmail, Str("a"))
        \/ removeNewRow(tabId, randomUUID(1, 0))
        \/ clearPendingChanges(tabId)

SpecTabs == Init /\ [][TabsNext]_vars

\* the values addNewRow is called with: handleAddRow's defaultValues, a map that names
\* one column, an empty map
DraftValues == {defaultValues, [c \in {ColEmail} |-> Str("a")], [c \in {} |-> Null]}

DraftsNext ==
    \E tabId \in Tabs :
        \/ enterEditMode(tabId, UsersContext)
        \/ updateCellValue(tabId, 1, ColEmail, Str("b"), Row(Num(3), Str("a")))
        \/ \E id \in DraftIds, values \in DraftValues : addNewRow(tabId, id, values)
        \/ \E id \in DraftIds, value \in {Null, Str("b")} :
              updateNewRowValue(tabId, id, ColEmail, value)
        \/ \E id \in DraftIds : removeNewRow(tabId, id)
        \/ \E seed \in Seeds : buildEditBatch(tabId, TableColumns, seed)

SpecDrafts == Init /\ [][DraftsNext]_vars

\* a table one of whose columns has a colon in its name
ColTag == <<"t", ":", "z">>

TagColumns ==
    << [name |-> ColId, dataType |-> "integer"], [name |-> ColEmail, dataType |-> "text"],
       [name |-> ColTag, dataType |-> "integer"] >>

\* row.original at a row index of that table's grid
TagRow(rowIndex) == (ColId :> Num(rowIndex)) @@ (ColEmail :> Null) @@ (ColTag :> Num(5))

\* the columns argument of buildEditBatch: the table's columns, or without the last one
ColumnLists == {TagColumns, SubSeq(TagColumns, 1, 2)}

\* the store under edits of that table
ColumnsNext ==
    \E tabId \in Tabs :
        \/ enterEditMode(tabId, UsersContext)
        \/ \E rowIndex \in RowIndices :
              updateCellValue(tabId, rowIndex, ColEmail, Str("b"), TagRow(rowIndex))
        \/ \E rowIndex \in RowIndices, value \in {Num(7), Num(5)} :
              updateCellValue(tabId, rowIndex, ColTag, value, TagRow(rowIndex))
        \/ \E rowIndex \in RowIndices : markRowForDeletion(tabId, rowIndex, TagRow(rowIndex))
        \/ \E rowIndex \in RowIndices : unmarkRowForDeletion(tabId, rowIndex)
        \/ \E columns \in ColumnLists, seed \in Seeds : buildEditBatch(tabId, columns, seed)

SpecColumns == Init /\ [][ColumnsNext]_vars

\* handleConfirmCommit with the grid still in use: the preview dialog can be closed
\* while the call is in flight, and the cells, the row menu and Add Row stay enabled
InFlightNext ==
    \/ /\ commit.pc = "idle"
       /\ \E tabId \in Tabs :
            \/ \E context \in {UsersContext, NoKeyContext} : enterEditMode(tabId, context)
            \/ updateCellValue(tabId, 1, ColEmail, Str("b"), Row(Num(1), Null))
    \/ /\ commit.pc = "awaiting"
       /\ \E tabId \in Tabs :
            \/ \E rowIndex \in RowIndices :
                 updateCellValue(tabId, rowIndex, ColEmail, Str("a"), Row(Num(rowIndex), Null))
            \/ markRowForDeletion(tabId, 11, Row(Num(11), Null))
            \/ addNewRow(tabId, randomUUID(1, 0), defaultValues)
    \/ \E tabId \in Tabs, seed \in Seeds : handleConfirmCommit(tabId, seed)
    \/ \E ok \in BOOLEAN : Connect(ok)
    \/ \E ok \in BOOLEAN : Begin(ok)
    \/ SkipInvalid
    \/ \E outcome \in StatementOutcomes \cup {AbortedOutcome} : ExecuteOperation(outcome)
    \/ \E ok \in BOOLEAN : Rollback(ok)
    \/ \E ok \in BOOLEAN : Commit(ok)
    \/ \E ok \in BOOLEAN : End(ok)
    \/ \E ok \in BOOLEAN : CatchRollback(ok)
    \/ \E ok \in BOOLEAN : CatchEnd(ok)
    \/ handleConfirmCommitResumes

SpecInFlight == Init /\ [][InFlightNext]_vars

----------------------------------------------------------------------------
(* What the claims speak of *)

\* the tabs that have a session
Sessions == DOMAIN tabEdits

HasCellEdit(tabEdit, rowIndex, columnName) ==
    \E i \in 1..Len(tabEdit.modifiedCells) :
        tabEdit.modifiedCells[i].key = cellKey(rowIndex, columnName)

RowHasCellEdit(tabEdit, rowIndex) ==
    \E columnName \in ColumnNames : HasCellEdit(tabEdit, rowIndex, columnName)

IsMarkedDeleted(tabEdit, rowIndex) ==
    \E i \in 1..Len(tabEdit.deletedRowIndices) : tabEdit.deletedRowIndices[i] = rowIndex

HasSnapshot(tabEdit, rowIndex) == rowIndex \in DOMAIN tabEdit.originalRows

\* the batch the latest buildEditBatch call returned, when it returned one
HasBuiltBatch == builtBatch # NotBuilt /\ builtBatch.result # Null

BuiltOperations == builtBatch.result.operations

BuiltTab == tabEdits[builtBatch.tabId]

\* the row index an Update or Delete addresses: every grid row has its own primary key
RowIndexOf(operation) ==
    CHOOSE rowIndex \in RowIndices : operation.originalRow \in RowVersions(rowIndex)

\* where a row's first CellEdit stands in modifiedCells
FirstEditPosition(tabEdit, rowIndex) ==
    CHOOSE i \in 1..Len(tabEdit.modifiedCells) :
        /\ \E c \in ColumnNames : tabEdit.modifiedCells[i].key = cellKey(rowIndex, c)
        /\ \A j \in 1..(i - 1) :
              \A c \in ColumnNames : tabEdit.modifiedCells[j].key # cellKey(rowIndex, c)

\* where a row stands in deletedRowIndices
MarkPosition(tabEdit, rowIndex) ==
    CHOOSE i \in 1..Len(tabEdit.deletedRowIndices) : tabEdit.deletedRowIndices[i] = rowIndex

TypeRank(operation) ==
    CASE operation.type = "update" -> 1 [] operation.type = "delete" -> 2
      [] operation.type = "insert" -> 3

\* Updates first, then Deletes, then Inserts
GroupedByType(operations) ==
    \A i, j \in 1..Len(operations) : i < j => TypeRank(operations[i]) <= TypeRank(operations[j])

\* the Inserts carry the drafts' ids, in the drafts' order
InsertsInDraftOrder(operations, tabEdit) ==
    LET inserts == SelectSeq(operations, LAMBDA o : o.type = "insert")
    IN  [i \in 1..Len(inserts) |-> inserts[i].id] =
        [i \in 1..Len(tabEdit.newRows) |-> tabEdit.newRows[i].id]

\* a batch with the ids of its Updates and Deletes blanked
WithoutGeneratedIds(built) ==
    IF built = Null THEN Null
    ELSE [built EXCEPT !.operations =
            [i \in 1..Len(@) |-> IF @[i].type = "insert" THEN @[i] ELSE [@[i] EXCEPT !.id = Null]]]

----------------------------------------------------------------------------
(* Claims *)

\* C1: an updateCellValue call that passes the value originalRow[col] leaves no CellEdit
\* for (rowIndex, col), in whatever state of the session it is made.
C1_NoOpDiffRemoved ==
    \A tabId \in Tabs, rowIndex \in RowIndices :
        \A columnName \in EditedColumns(rowIndex), originalRow \in RowVersions(rowIndex) :
            ~HasCellEdit(updateCellValueState(ExistingOrInitial(tabId), rowIndex, columnName,
                                              Prop(originalRow, columnName), originalRow),
                         rowIndex, columnName)

\* C1 witness: the cell holds an edit, another cell of the row was edited after it, and
\* the call back to the original removes the first edit and keeps the second.
C1_Witness ==
    \E tabId \in Sessions :
        /\ Len(tabEdits[tabId].modifiedCells) = 2
        /\ tabEdits[tabId].modifiedCells[1] = [key |-> cellKey(1, ColEmail), value |-> Str("a")]
        /\ tabEdits[tabId].modifiedCells[2].key = cellKey(1, ColId)
        /\ tabEdits[tabId].originalRows[1] = Row(Num(1), Null)
        /\ updateCellValueState(tabEdits[tabId], 1, ColEmail, Null, Row(Num(1), Null)).modifiedCells
             = <<tabEdits[tabId].modifiedCells[2]>>

\* C2 (as claimed): every row with a CellEdit or a deletion mark has a snapshot.
C2_ModifiedOrDeletedHasSnapshot ==
    \A tabId \in Sessions, rowIndex \in RowIndices :
        (RowHasCellEdit(tabEdits[tabId], rowIndex) \/ IsMarkedDeleted(tabEdits[tabId], rowIndex))
            => HasSnapshot(tabEdits[tabId], rowIndex)

\* C3 (as claimed): a snapshot exists only for rows with a CellEdit or a deletion mark.
C3_SnapshotOnlyWhileModifiedOrDeleted ==
    \A tabId \in Sessions, rowIndex \in RowIndices :
        HasSnapshot(tabEdits[tabId], rowIndex)
            => (RowHasCellEdit(tabEdits[tabId], rowIndex) \/ IsMarkedDeleted(tabEdits[tabId], rowIndex))

\* C4: while a row has a snapshot, no updateCellValue and no markRowForDeletion on the row
\* replaces it, whatever originalRow the call passes: if the row still has a snapshot
\* after the call, it is the one it had.
C4_SnapshotFirstWriteWins ==
    \A tabId \in Sessions, rowIndex \in RowIndices :
        HasSnapshot(tabEdits[tabId], rowIndex) =>
            \A originalRow \in RowVersions(rowIndex) :
                LET kept(after) ==
                        HasSnapshot(after, rowIndex) =>
                            after.originalRows[rowIndex] = tabEdits[tabId].originalRows[rowIndex]
                IN  /\ kept(markRowForDeletionState(tabEdits[tabId], rowIndex, originalRow))
                    /\ \A columnName \in EditedColumns(rowIndex) :
                          \A value \in SampleValues(columnName) :
                              kept(updateCellValueState(tabEdits[tabId], rowIndex, columnName,
                                                        value, originalRow))

\* C4 witness: a row with a snapshot, an edit and a deletion mark, while the grid shows
\* another row at its index: a later call passes an originalRow that is not the snapshot.
C4_Witness ==
    \E tabId \in Sessions, rowIndex \in RowIndices :
        /\ HasSnapshot(tabEdits[tabId], rowIndex)
        /\ RowHasCellEdit(tabEdits[tabId], rowIndex)
        /\ IsMarkedDeleted(tabEdits[tabId], rowIndex)
        /\ \E originalRow \in RowVersions(rowIndex) :
              /\ originalRow # tabEdits[tabId].originalRows[rowIndex]
              /\ markRowForDeletionState(tabEdits[tabId], rowIndex, originalRow) = tabEdits[tabId]

\* C5: in a built batch, every primaryKeys value of an Update or Delete is the value the
\* snapshot of the operation's row has for that column.
C5_PrimaryKeysFromSnapshot ==
    HasBuiltBatch =>
        \A i \in 1..Len(BuiltOperations) :
            LET operation == BuiltOperations[i]
            IN  operation.type \in {"update", "delete"} =>
                    /\ HasSnapshot(BuiltTab, RowIndexOf(operation))
                    /\ operation.originalRow = BuiltTab.originalRows[RowIndexOf(operation)]
                    /\ Len(operation.primaryKeys) = Len(BuiltTab.context.primaryKeyColumns)
                    /\ \A k \in 1..Len(operation.primaryKeys) :
                          /\ operation.primaryKeys[k].column = BuiltTab.context.primaryKeyColumns[k]
                          /\ operation.primaryKeys[k].value =
                                BuiltTab.originalRows[RowIndexOf(operation)]
                                    [operation.primaryKeys[k].column]

\* C5 witness: a built batch holds an Update of a row whose primary-key column is edited
\* to a value that is not the snapshot's.
C5_Witness ==
    /\ HasBuiltBatch
    /\ \E i \in 1..Len(BuiltOperations) :
          /\ BuiltOperations[i].type = "update"
          /\ \E k \in 1..Len(BuiltOperations[i].changes) :
                /\ BuiltOperations[i].changes[k].column = ColId
                /\ BuiltOperations[i].changes[k].newValue # BuiltOperations[i].primaryKeys[1].value

\* ids of the operations of the batch the handler was invoked with
BatchOperationIds == { batch.operations[i].id : i \in 1..Len(batch.operations) }

\* how many times the handler has sent the statement
TimesSent(sql) == Cardinality({ i \in 1..Len(queries) : queries[i].sql = sql })

\* the COMMITs and ROLLBACKs the handler has sent, in order
TransactionEnds == SelectSeq(queries, LAMBDA q : q.sql \in {"COMMIT", "ROLLBACK"})

\* the handler went through its try block without a throw: it is about to close the
\* connection or has returned the EditResult
NonFatalPath == pc = "end" \/ (pc = "returned" /\ response.success)

\* C6: db.execute is all-or-nothing. Whenever an operation of the batch has recorded an
\* error (validation or statement failure), no operation's change is persisted, those of
\* operations that executed before the failing one included; whatever is persisted is the
\* whole batch, persisted by one COMMIT with no error recorded; and when the handler
\* returns an EditResult without errors, every operation's change is persisted by a
\* single COMMIT.
C6_AllOrNothing ==
    /\ (result # Null /\ Len(result.errors) > 0) => committed = {}
    /\ committed # {} =>
          /\ Len(result.errors) = 0
          /\ committed = BatchOperationIds
          /\ TimesSent("COMMIT") = 1
    /\ (pc = "returned" /\ response.success /\ Len(response.data.errors) = 0) =>
          /\ committed = BatchOperationIds
          /\ TimesSent("COMMIT") = 1

\* C6 witness: the handler returned after an operation had affected a row and a later one
\* had recorded an error; nothing is persisted
C6_Witness ==
    /\ pc = "returned"
    /\ response.success
    /\ response.data.rowsAffected > 0
    /\ Len(response.data.errors) > 0
    /\ committed = {}

\* C7: after the loop, on the path without a throw, exactly one of ROLLBACK and COMMIT has
\* been sent: ROLLBACK with EditResult.success = false when at least one error was
\* collected, COMMIT with success = true otherwise.
C7_RollbackIffErrors ==
    NonFatalPath =>
        /\ Len(TransactionEnds) = 1
        /\ Len(result.errors) > 0 =>
              (TransactionEnds[1].sql = "ROLLBACK" /\ result.success = FALSE)
        /\ Len(result.errors) = 0 =>
              (TransactionEnds[1].sql = "COMMIT" /\ result.success = TRUE)

\* C7 witness: the handler returned an EditResult with success = true after its COMMIT
C7_Witness ==
    /\ pc = "returned"
    /\ response.success
    /\ response.data.success
    /\ TransactionEnds = <<[sql |-> "COMMIT"]>>

\* C8 (as claimed): Updates in ascending rowIndex, then Deletes in ascending rowIndex,
\* then Inserts in draft order.
C8_AscendingRowIndexOrder ==
    HasBuiltBatch =>
        /\ GroupedByType(BuiltOperations)
        /\ InsertsInDraftOrder(BuiltOperations, BuiltTab)
        /\ \A i, j \in 1..Len(BuiltOperations) :
              (/\ i < j
               /\ BuiltOperations[i].type = BuiltOperations[j].type
               /\ BuiltOperations[i].type \in {"update", "delete"})
                  => RowIndexOf(BuiltOperations[i]) < RowIndexOf(BuiltOperations[j])

\* C8 (amended): Updates, then Deletes, then Inserts; the Updates in the order in which
\* their rows were first edited (the order of modifiedCells), the Deletes in the order in
\* which their rows were marked (the order of deletedRowIndices), the Inserts in draft order.
C8_InsertionOrder ==
    HasBuiltBatch =>
        /\ GroupedByType(BuiltOperations)
        /\ InsertsInDraftOrder(BuiltOperations, BuiltTab)
        /\ \A i, j \in 1..Len(BuiltOperations) :
              (i < j /\ BuiltOperations[i].type = BuiltOperations[j].type) =>
                  /\ BuiltOperations[i].type = "update" =>
                        FirstEditPosition(BuiltTab, RowIndexOf(BuiltOperations[i]))
                            < FirstEditPosition(BuiltTab, RowIndexOf(BuiltOperations[j]))
                  /\ BuiltOperations[i].type = "delete" =>
                        MarkPosition(BuiltTab, RowIndexOf(BuiltOperations[i]))
                            < MarkPosition(BuiltTab, RowIndexOf(BuiltOperations[j]))

\* C8 witness: a built batch whose two Updates are in descending rowIndex, the order of
\* their first edits, followed by two Inserts.
C8_Witness ==
    /\ HasBuiltBatch
    /\ Len(BuiltOperations) = 4
    /\ BuiltOperations[1].type = "update" /\ RowIndexOf(BuiltOperations[1]) = 11
    /\ BuiltOperations[2].type = "update" /\ RowIndexOf(BuiltOperations[2]) = 1
    /\ BuiltOperations[3].type = "insert"
    /\ BuiltOperations[4].type = "insert"

C10_NullEmptyEquivalentBothWays ==
    \A tabId \in Tabs, rowIndex \in RowIndices :
        \A columnName \in EditedColumns(rowIndex), originalRow \in RowVersions(rowIndex) :
            /\ Prop(originalRow, columnName) = Null =>
                  ~HasCellEdit(updateCellValueState(ExistingOrInitial(tabId), rowIndex,
                                   columnName, EmptyString, originalRow), rowIndex, columnName)
            /\ Prop(originalRow, columnName) = EmptyString =>
                  ~HasCellEdit(updateCellValueState(ExistingOrInitial(tabId), rowIndex,
                                   columnName, Null, originalRow), rowIndex, columnName)

\* the Updates / Deletes of an operations array that address the row
OperationsOn(operations, type, rowIndex) ==
    SelectSeq(operations, LAMBDA o : o.type = type /\ RowIndexOf(o) = rowIndex)

\* C11: a row with CellEdits that is also marked for deletion is not counted in
\* getPendingChangesCount().updates (which counts exactly the modified rows that are not
\* marked), and buildEditBatch yields no Update for it, only its Delete.
C11_DeletionOverridesModification ==
    \A tabId \in Sessions :
        LET tabEdit == tabEdits[tabId]
            overridden == { r \in RowIndices : RowHasCellEdit(tabEdit, r) /\ IsMarkedDeleted(tabEdit, r) }
        IN  overridden # {} =>
              /\ getPendingChangesCount(tabEdit).updates =
                    Cardinality({ r \in RowIndices : RowHasCellEdit(tabEdit, r) } \ overridden)
              /\ tabEdit.context # Null =>
                    \A seed \in Seeds :
                        LET built == buildEditBatchOf(tabEdit, TableColumns, seed)
                        IN  /\ built # Null
                            /\ \A r \in overridden :
                                  /\ Len(OperationsOn(built.operations, "update", r)) = 0
                                  /\ Len(OperationsOn(built.operations, "delete", r)) = 1

\* C11 witness: a batch was built while one row had a CellEdit and a deletion mark and
\* another row had a CellEdit only
C11_Witness ==
    /\ HasBuiltBatch
    /\ \E r \in RowIndices : RowHasCellEdit(BuiltTab, r) /\ IsMarkedDeleted(BuiltTab, r)
    /\ \E r \in RowIndices : RowHasCellEdit(BuiltTab, r) /\ ~IsMarkedDeleted(BuiltTab, r)
    /\ getPendingChangesCount(BuiltTab).updates = 1
\* the statements of operations the handler has sent, in order
OperationStatements == SelectSeq(queries, LAMBDA q : q.sql \notin {"BEGIN", "COMMIT", "ROLLBACK"})

\* the operations the loop has been through
AttemptedOperations ==
    IF batch = Null \/ opIndex = 0 THEN <<>> ELSE SubSeq(batch.operations, 1, opIndex - 1)

\* the loop has started and has operations left
InsideLoop == batch # Null /\ opIndex >= 1 /\ opIndex <= Len(batch.operations)

\* the loop has been through every operation of the batch
LoopCompleted == batch # Null /\ opIndex > Len(batch.operations)

\* C12: a statement the database rejects is recorded as {operationId, message} and does
\* not stop the loop: while operations are left the handler is still in the loop, whatever
\* errors it has recorded, and every valid operation the loop has been through has had its
\* statement sent, those after a rejected statement included.
C12_StatementErrorDoesNotStopLoop ==
    /\ InsideLoop => pc = "loop"
    /\ LET valid == SelectSeq(AttemptedOperations, LAMBDA o : validateOperation(o).valid)
       IN  [i \in 1..Len(OperationStatements) |-> OperationStatements[i].operationId] =
           [i \in 1..Len(valid) |-> valid[i].id]
    /\ \A i \in 1..Len(OperationStatements) :
          OperationStatements[i].rejected =>
              \E k \in 1..Len(result.errors) :
                  /\ DOMAIN result.errors[k] = {"operationId", "message"}
                  /\ result.errors[k].operationId = OperationStatements[i].operationId

\* C12 witness: the first operation's statement was rejected, the loop went on through a
\* three-operation batch and sent the third operation's statement
C12_Witness ==
    /\ LoopCompleted
    /\ Len(batch.operations) = 3
    /\ Len(OperationStatements) = 3
    /\ OperationStatements[1].rejected
    /\ OperationStatements[3].operationId = batch.operations[3].id
    /\ result.errors[1].operationId = batch.operations[1].id
\* the operations the loop has been through that validateOperation rejects
RejectedByValidation == SelectSeq(AttemptedOperations, LAMBDA o : ~validateOperation(o).valid)

\* C13: an operation that fails validateOperation never has a statement sent; its
\* {operationId, message} is in errors, once; the operations after it are still attempted
\* (the valid ones have their statement sent); and once the loop is through, no COMMIT is
\* sent, a ROLLBACK is sent instead and nothing of the batch is persisted.
C13_InvalidOperationSkippedAndRolledBack ==
    /\ \A i \in 1..Len(RejectedByValidation) :
          LET operation == RejectedByValidation[i]
          IN  /\ \A k \in 1..Len(queries) :
                    "operationId" \in DOMAIN queries[k] => queries[k].operationId # operation.id
              /\ Cardinality({ k \in 1..Len(result.errors) :
                                 result.errors[k] = [operationId |-> operation.id,
                                                     message |-> validateOperation(operation).error] }) = 1
              /\ Cardinality({ k \in 1..Len(result.errors) :
                                 result.errors[k].operationId = operation.id }) = 1
    /\ (InsideLoop /\ Len(RejectedByValidation) > 0) => pc = "loop"
    /\ \A i \in 1..Len(AttemptedOperations) :
          validateOperation(AttemptedOperations[i]).valid =>
              \E k \in 1..Len(OperationStatements) :
                  OperationStatements[k].operationId = AttemptedOperations[i].id
    /\ (LoopCompleted /\ Len(RejectedByValidation) > 0) =>
          /\ TimesSent("COMMIT") = 0
          /\ committed = {}
          /\ pc # "finish" => TimesSent("ROLLBACK") >= 1

\* C13 witness: the first of three operations failed validation, the other two had their
\* statements sent and took effect, and the handler returned after its ROLLBACK
C13_Witness ==
    /\ pc = "returned"
    /\ response.success
    /\ Len(batch.operations) = 3
    /\ ~validateOperation(batch.operations[1]).valid
    /\ Len(OperationStatements) = 2
    /\ response.data.rowsAffected = 2
    /\ Len(response.data.errors) = 1
    /\ TransactionEnds = <<[sql |-> "ROLLBACK"]>>
    /\ committed = {}
\* the error entries of statements that the database rejected on their own account
OwnFailures == SelectSeq(result.errors, LAMBDA e : e.message = "violates constraint")

\* C14 (as claimed): when every operation of the batch is valid and exactly one
\* operation's statement fails on its own account, errors holds exactly one entry, the
\* failing operation's: the operations after it are not reported as failures.
C14_OnlyFailingOperationReported ==
    ( /\ LoopCompleted
      /\ Len(RejectedByValidation) = 0
      /\ Len(OwnFailures) = 1 )
    => result.errors = OwnFailures
\* the messages of the exceptions that reach the handler's outer catch
FatalMessages ==
    { Str("connect failed"), Str("BEGIN failed"), Str("COMMIT failed"), Str("ROLLBACK failed"),
      Str("end failed") }

\* the ROLLBACK the try block sent (not the catch's best-effort one)
SentInTry(sql) ==
    \E i \in 1..Len(queries) : queries[i].sql = sql /\ "bestEffort" \notin DOMAIN queries[i]

\* C15: an exception from connect, BEGIN, COMMIT or ROLLBACK (or client.end) makes the
\* handler return {success: false, error} with the message of that exception and without
\* an EditResult; before returning it sends a best-effort ROLLBACK, whose own failure
\* never replaces the error that is reported.
C15_FatalErrorReported ==
    /\ thrown # Null =>
          /\ thrown \in FatalMessages
          /\ thrown = Str("connect failed") => ~SentInTry("BEGIN")
          /\ thrown = Str("BEGIN failed") => (SentInTry("BEGIN") /\ opIndex = 0)
          /\ thrown = Str("COMMIT failed") => (SentInTry("COMMIT") /\ committed = {})
          /\ thrown = Str("ROLLBACK failed") => SentInTry("ROLLBACK")
          /\ pc \in {"catchRollback", "catchEnd", "returned"}
          /\ pc \in {"catchEnd", "returned"} =>
                (/\ queries[Len(queries)].sql = "ROLLBACK"
                 /\ "bestEffort" \in DOMAIN queries[Len(queries)])
    /\ pc = "returned" =>
          IF thrown # Null
          THEN response = [success |-> FALSE, error |-> thrown]
          ELSE response = [success |-> TRUE, data |-> result]

\* C15 witness: COMMIT threw, the best-effort ROLLBACK failed too, and the handler
\* returned the COMMIT's message
C15_Witness ==
    /\ pc = "returned"
    /\ response = [success |-> FALSE, error |-> Str("COMMIT failed")]
    /\ queries[Len(queries)].rejected
    /\ SentInTry("COMMIT")
\* the pending diff of a session: CellEdits, deletion marks, drafts, snapshots
DiffOf(tabEdit) ==
    [ modifiedCells     |-> tabEdit.modifiedCells,
      deletedRowIndices |-> tabEdit.deletedRowIndices,
      newRows           |-> tabEdit.newRows,
      originalRows      |-> tabEdit.originalRows ]

EmptyDiff ==
    [ modifiedCells |-> <<>>, deletedRowIndices |-> <<>>, newRows |-> <<>>,
      originalRows |-> EmptyRows ]

\* C16: handleConfirmCommit clears the session's pending diff only after db.execute has
\* returned a successful transport response carrying EditResult.success = true; while the
\* call is in flight, and after a per-operation failure, a transport failure or a thrown
\* exception, the store is exactly as it was when the commit was attempted.
C16_DiffClearedOnlyAfterSuccess ==
    /\ commit.pc = "awaiting" => tabEdits = commit.before
    /\ commit.pc = "done" =>
          IF commit.outcome = "cleared"
          THEN /\ pc = "returned"
               /\ response.success
               /\ response.data.success
               /\ DiffOf(tabEdits[commit.tabId]) = EmptyDiff
               /\ tabEdits = [commit.before EXCEPT ![commit.tabId] = clearPendingChangesState(@)]
          ELSE /\ tabEdits = commit.before
               /\ DiffOf(tabEdits[commit.tabId]) # EmptyDiff
               /\ pc = "returned" => ~(response.success /\ response.data.success)

\* C16 witness: the handler returned an EditResult with success = false and
\* handleConfirmCommit left a diff of a CellEdit, a deletion mark and a draft in place
C16_Witness ==
    /\ commit.pc = "done"
    /\ commit.outcome = "failed"
    /\ response.success
    /\ ~response.data.success
    /\ Len(tabEdits[commit.tabId].modifiedCells) > 0
    /\ Len(tabEdits[commit.tabId].deletedRowIndices) > 0
    /\ Len(tabEdits[commit.tabId].newRows) > 0
\* C17: in every reachable state of a session, applying revertCellChange, revertRowChanges
\* or revertAllChanges twice with the same arguments gives the state that applying it once
\* gives, and after revertAllChanges the diff (CellEdits, deletion marks, drafts, snapshots)
\* is empty.
C17_RevertsIdempotent ==
    \A tabId \in Sessions :
        LET existing == tabEdits[tabId]
        IN  /\ \A rowIndex \in RowIndices, columnName \in ColumnNames :
                  revertCellChangeState(revertCellChangeState(existing, rowIndex, columnName),
                                        rowIndex, columnName)
                  = revertCellChangeState(existing, rowIndex, columnName)
            /\ \A rowIndex \in RowIndices :
                  revertRowChangesState(revertRowChangesState(existing, rowIndex), rowIndex)
                  = revertRowChangesState(existing, rowIndex)
            /\ revertAllChangesState(revertAllChangesState(existing))
               = revertAllChangesState(existing)
            /\ DiffOf(revertAllChangesState(existing)) = EmptyDiff

\* C17 witness: a session with CellEdits on two rows, a deletion mark and a draft, on
\* which each of the three reverts removes something
C17_Witness ==
    \E tabId \in Sessions :
        LET existing == tabEdits[tabId]
        IN  /\ Len(existing.newRows) > 0
            /\ Len(existing.deletedRowIndices) > 0
            /\ \A rowIndex \in RowIndices : RowHasCellEdit(existing, rowIndex)
            /\ \E rowIndex \in RowIndices, columnName \in ColumnNames :
                  /\ revertCellChangeState(existing, rowIndex, columnName) # existing
                  /\ revertRowChangesState(existing, rowIndex) # existing
            /\ revertAllChangesState(existing) # existing
\* C18: a store operation invoked with tabId A leaves the session of every other tab B
\* as it was (mode, context, cursor, CellEdits, deletion marks, drafts, snapshots), and
\* neither creates nor removes it, in every interleaving of calls for the two tabs.
C18_OtherSessionsUnchanged ==
    [][ \A other \in TwoTabs \ {calledTab'} :
            /\ (other \in DOMAIN tabEdits') = (other \in DOMAIN tabEdits)
            /\ other \in DOMAIN tabEdits => tabEdits'[other] = tabEdits[other] ]_vars

\* C18 witness: the latest call was for t1 and changed it, while t2 is in edit mode with
\* a cursor, a CellEdit, a deletion mark, a draft and a snapshot
C18_Witness ==
    /\ calledTab = "t1"
    /\ TwoTabs \subseteq DOMAIN tabEdits
    /\ tabEdits["t1"] # tabEdits["t2"]
    /\ DiffOf(tabEdits["t1"]) = EmptyDiff
    /\ tabEdits["t2"].isEditMode
    /\ tabEdits["t2"].editingCell # Null
    /\ HasCellEdit(tabEdits["t2"], 1, ColEmail)
    /\ IsMarkedDeleted(tabEdits["t2"], 1)
    /\ HasSnapshot(tabEdits["t2"], 1)
    /\ Len(tabEdits["t2"].newRows) = 1
\* the session with another draft list
WithNewRows(tabEdit, newRows) == [tabEdit EXCEPT !.newRows = newRows]

\* C19: in every reachable state of a session, addNewRow, updateNewRowValue and
\* removeNewRow change nothing but the draft list (CellEdits, deletion marks and snapshots
\* stay), and updateCellValue, markRowForDeletion, unmarkRowForDeletion, revertCellChange
\* and revertRowChanges leave the draft list as it is.
C19_DraftsIndependentOfTracking ==
    \A tabId \in Sessions :
        LET existing == tabEdits[tabId]
        IN  /\ \A id \in DraftIds :
                  /\ addNewRowState(existing, id, defaultValues)
                        = WithNewRows(existing, addNewRowState(existing, id, defaultValues).newRows)
                  /\ removeNewRowState(existing, id)
                        = WithNewRows(existing, removeNewRowState(existing, id).newRows)
                  /\ \A columnName \in ColumnNames :
                        \A value \in SampleValues(columnName) :
                            updateNewRowValueState(existing, id, columnName, value)
                            = WithNewRows(existing,
                                  updateNewRowValueState(existing, id, columnName, value).newRows)
            /\ \A rowIndex \in RowIndices :
                  /\ unmarkRowForDeletionState(existing, rowIndex).newRows = existing.newRows
                  /\ revertRowChangesState(existing, rowIndex).newRows = existing.newRows
                  /\ \A columnName \in ColumnNames :
                        revertCellChangeState(existing, rowIndex, columnName).newRows
                        = existing.newRows
                  /\ \A originalRow \in RowVersions(rowIndex) :
                        /\ markRowForDeletionState(existing, rowIndex, originalRow).newRows
                              = existing.newRows
                        /\ \A columnName \in EditedColumns(rowIndex) :
                              \A value \in SampleValues(columnName) :
                                 updateCellValueState(existing, rowIndex, columnName, value,
                                                      originalRow).newRows = existing.newRows

\* C19 witness: a session with a draft, a CellEdit, a deletion mark and snapshots, on which
\* a draft operation and a revert of a row each change something
C19_Witness ==
    \E tabId \in Sessions :
        LET existing == tabEdits[tabId]
        IN  /\ Len(existing.newRows) = 1
            /\ Len(existing.modifiedCells) > 0
            /\ Len(existing.deletedRowIndices) > 0
            /\ updateNewRowValueState(existing, existing.newRows[1].id, ColEmail, Str("a")) # existing
            /\ removeNewRowState(existing, existing.newRows[1].id) # existing
            /\ \E rowIndex \in RowIndices : revertRowChangesState(existing, rowIndex) # existing
\* the three edits of the scenario, in the orders they can be made in
ScenarioOrders ==
    { <<"modify", "mark", "add">>, <<"modify", "add", "mark">>, <<"mark", "modify", "add">>,
      <<"mark", "add", "modify">>, <<"add", "modify", "mark">>, <<"add", "mark", "modify">> }

\* one edit of the scenario: a cell of row `modified` gets `value`, row `marked` is marked
\* for deletion, a draft `id` is added
ScenarioEdit(existing, edit, modified, columnName, value, marked, id) ==
    CASE edit = "modify" ->
            updateCellValueState(existing, modified.rowIndex, columnName, value, modified.row)
      [] edit = "mark" -> markRowForDeletionState(existing, marked.rowIndex, marked.row)
      [] edit = "add" -> addNewRowState(existing, id, defaultValues)

\* the session after the three edits made in the given order
AfterScenario(existing, order, modified, columnName, value, marked, id) ==
    ScenarioEdit(
        ScenarioEdit(
            ScenarioEdit(existing, order[1], modified, columnName, value, marked, id),
            order[2], modified, columnName, value, marked, id),
        order[3], modified, columnName, value, marked, id)

\* the rows of the grid with what the grid shows for them
GridRows == { [rowIndex |-> r, row |-> row] : r \in RowIndices, row \in UNION {RowVersions(x) : x \in RowIndices} }

\* C20: from a session in edit mode with no pending changes, modifying one cell of a row,
\* marking a different row deleted and adding one new row, in any order, makes
\* buildEditBatch return exactly three operations: the Update of the modified row, the
\* Delete of the marked row, the Insert of the draft, in this order.
C20_ScenarioUpdateDeleteInsert ==
    \A tabId \in Sessions :
        LET existing == tabEdits[tabId]
        IN  ( /\ existing.isEditMode
              /\ existing.context # Null
              /\ getPendingChangesCount(existing) = [updates |-> 0, inserts |-> 0, deletes |-> 0] )
            =>
            \A modified \in GridRows, marked \in GridRows :
                ( /\ modified.row \in RowVersions(modified.rowIndex)
                  /\ marked.row \in RowVersions(marked.rowIndex)
                  /\ modified.rowIndex # marked.rowIndex )
                =>
                \A columnName \in EditedColumns(modified.rowIndex), id \in DraftIds :
                    \A value \in SampleValues(columnName) :
                        ~isSameAsOriginal(value, Prop(modified.row, columnName)) =>
                        \A order \in ScenarioOrders, seed \in Seeds :
                            LET built == buildEditBatchOf(
                                            AfterScenario(existing, order, modified, columnName,
                                                          value, marked, id),
                                            TableColumns, seed)
                            IN  /\ built # Null
                                /\ Len(built.operations) = 3
                                /\ built.operations[1].type = "update"
                                /\ RowIndexOf(built.operations[1]) = modified.rowIndex
                                /\ Len(built.operations[1].changes) = 1
                                /\ built.operations[1].changes[1].column = columnName
                                /\ built.operations[1].changes[1].newValue = value
                                /\ built.operations[2].type = "delete"
                                /\ RowIndexOf(built.operations[2]) = marked.rowIndex
                                /\ built.operations[3].type = "insert"
                                /\ built.operations[3].id = id

\* C20 witness: a batch of three operations was built for a session in edit mode that
\* holds one CellEdit, a deletion mark on another row and one draft
C20_Witness ==
    /\ HasBuiltBatch
    /\ BuiltTab.isEditMode
    /\ Len(BuiltTab.modifiedCells) = 1
    /\ Len(BuiltTab.deletedRowIndices) = 1
    /\ Len(BuiltTab.newRows) = 1
    /\ ~RowHasCellEdit(BuiltTab, BuiltTab.deletedRowIndices[1])
    /\ Len(BuiltOperations) = 3
    /\ [i \in 1..3 |-> BuiltOperations[i].type] = <<"update", "delete", "insert">>
----------------------------------------------------------------------------

\* a session without CellEdit, deletion mark and draft
NoPendingChange(tabEdit) ==
    /\ tabEdit.modifiedCells = <<>>
    /\ tabEdit.deletedRowIndices = <<>>
    /\ tabEdit.newRows = <<>>

\* the session after updateCellValue(rowIndex, columnName, value) and then
\* updateCellValue(rowIndex, columnName, originalRow[columnName])
EditedAndRestored(existing, rowIndex, columnName, value, originalRow) ==
    updateCellValueState(
        updateCellValueState(existing, rowIndex, columnName, value, originalRow),
        rowIndex, columnName, Prop(originalRow, columnName), originalRow)

\* C21: buildEditBatch returns null when the operations array it has built is empty, and
\* never a batch without operations; in particular, in a session without pending change,
\* editing a cell and then setting it back to its original value makes it return null.
C21_NullWhenNoOperations ==
    /\ \A tabId \in Sessions, seed \in Seeds :
          LET built == buildEditBatchOf(tabEdits[tabId], TableColumns, seed)
          IN  /\ built # Null => Len(built.operations) > 0
              /\ tabEdits[tabId].context # Null =>
                    (Len(operationsOf(tabEdits[tabId], TableColumns, seed)) = 0 => built = Null)
    /\ HasBuiltBatch => Len(BuiltOperations) > 0
    /\ \A tabId \in Sessions, seed \in Seeds, rowIndex \in RowIndices :
          \A columnName \in EditedColumns(rowIndex), originalRow \in RowVersions(rowIndex) :
              \A value \in SampleValues(columnName) :
                  NoPendingChange(tabEdits[tabId]) =>
                      buildEditBatchOf(EditedAndRestored(tabEdits[tabId], rowIndex, columnName,
                                                         value, originalRow),
                                       TableColumns, seed) = Null

\* C21 witness: the session's only pending change is the edit of row 1's email from 'a'
\* to null, for which buildEditBatch returns a batch; setting the cell back to 'a' makes
\* it return null
C21_Witness ==
    \E tabId \in Sessions :
        /\ tabEdits[tabId].context = UsersContext
        /\ tabEdits[tabId].modifiedCells = <<[key |-> cellKey(1, ColEmail), value |-> Null]>>
        /\ tabEdits[tabId].deletedRowIndices = <<>>
        /\ tabEdits[tabId].newRows = <<>>
        /\ tabEdits[tabId].originalRows[1] = Row(Num(3), Str("a"))
        /\ buildEditBatchOf(tabEdits[tabId], TableColumns, 1) # Null
        /\ buildEditBatchOf(updateCellValueState(tabEdits[tabId], 1, ColEmail, Str("a"),
                                                 Row(Num(3), Str("a"))),
                            TableColumns, 1) = Null
----------------------------------------------------------------------------

\* the Inserts of a batch, in order (none when buildEditBatch returned null)
InsertsOf(built) ==
    IF built = Null THEN <<>> ELSE SelectSeq(built.operations, LAMBDA o : o.type = "insert")

\* the column list an Insert carries for the columns argument
ColumnList(columns) ==
    [j \in 1..Len(columns) |-> [name |-> columns[j].name, dataType |-> columns[j].dataType]]

\* the Insert carries a value for every column of its column list
HasValueForEveryColumn(insert) ==
    \A j \in 1..Len(insert.columns) : insert.columns[j].name \in DOMAIN insert.values

\* C22: for each draft, buildEditBatch emits exactly one Insert with the
\* draft's id, the full column list and a value for every column of that list, however
\* the draft was created through addNewRow and updateNewRowValue.
C22_InsertHasValueForEveryColumn ==
    \A tabId \in Sessions, seed \in Seeds :
        tabEdits[tabId].context # Null =>
            LET inserts == InsertsOf(buildEditBatchOf(tabEdits[tabId], TableColumns, seed))
                newRows == tabEdits[tabId].newRows
            IN  /\ Len(inserts) = Len(newRows)
                /\ \A i \in 1..Len(newRows) :
                      /\ inserts[i].id = newRows[i].id
                      /\ inserts[i].columns = ColumnList(TableColumns)
                      /\ HasValueForEveryColumn(inserts[i])

----------------------------------------------------------------------------

\* the step sends a statement: the query log grows
SendsStatement == Len(queries') > Len(queries)

\* the step sends the statement of an operation of the batch
SendsOperationStatement ==
    SendsStatement /\ "operationId" \in DOMAIN queries'[Len(queries')]

\* C23: an invocation of db.execute creates one client and sends every statement on it;
\* a step sends at most one statement; the statement of an operation is sent only after
\* BEGIN was sent first and accepted, when every statement sent since is the statement of
\* an earlier operation of the batch and has completed or failed; it is the statement of
\* the operation the loop stands at, and the loop then moves to the next operation.
C23_OneConnectionSequentialStatements ==
    [][ /\ (connection = "none") <=> (pc = "idle")
        /\ connection' = "new" => connection \in {"none", "new"}
        /\ connection' = "connected" => connection \in {"new", "connected"}
        /\ Len(queries') <= Len(queries) + 1
        /\ SubSeq(queries', 1, Len(queries)) = queries
        /\ SendsStatement => (connection \in {"new", "connected"} /\ connection' = connection)
        /\ SendsOperationStatement =>
              /\ connection = "connected"
              /\ Len(queries) >= 1
              /\ queries[1] = [sql |-> "BEGIN"]
              /\ transaction \in {"open", "aborted"}
              /\ \A k \in 2..Len(queries) :
                    /\ "operationId" \in DOMAIN queries[k]
                    /\ queries[k].rejected \in BOOLEAN
                    /\ \E i \in 1..(opIndex - 1) : batch.operations[i].id = queries[k].operationId
                    /\ \A j \in 2..(k - 1) :
                          \E i1, i2 \in 1..(opIndex - 1) :
                              /\ i1 < i2
                              /\ batch.operations[i1].id = queries[j].operationId
                              /\ batch.operations[i2].id = queries[k].operationId
              /\ queries'[Len(queries')].operationId = batch.operations[opIndex].id
              /\ opIndex' = opIndex + 1
      ]_vars

\* C23 witness: the handler returned on an ended connection after BEGIN, the statements
\* of three operations in batch order, the second of them rejected, and ROLLBACK
C23_Witness ==
    /\ pc = "returned"
    /\ connection = "ended"
    /\ Len(queries) = 5
    /\ queries[1] = [sql |-> "BEGIN"]
    /\ Len(batch.operations) = 3
    /\ \A i \in 1..3 :
          /\ "operationId" \in DOMAIN queries[i + 1]
          /\ queries[i + 1].operationId = batch.operations[i].id
    /\ ~queries[2].rejected
    /\ queries[3].rejected
    /\ queries[5] = [sql |-> "ROLLBACK"]
----------------------------------------------------------------------------

\* an Update or Delete whose primaryKeys is empty or holds an undefined value, or an
\* Insert whose values map is empty
LacksKeyOrValues(operation) ==
    \/ /\ operation.type \in {"update", "delete"}
       /\ \/ operation.primaryKeys = <<>>
          \/ \E k \in DOMAIN operation.primaryKeys : operation.primaryKeys[k].value = Undefined
    \/ /\ operation.type = "insert"
       /\ operation.values = <<>>

\* C24: for every operation of the batch the handler is invoked with, validateOperation
\* returns {valid: false} with a non-empty error when the operation is an Update or Delete
\* whose primaryKeys is empty or contains an undefined value or an Insert whose values map
\* is empty, and {valid: true} otherwise; the handler records exactly that error for the
\* operations it has skipped.
C24_ValidateOperation ==
    batch # Null =>
        /\ \A i \in 1..Len(batch.operations) :
              LET operation == batch.operations[i]
                  validation == validateOperation(operation)
              IN  IF LacksKeyOrValues(operation)
                  THEN /\ validation.valid = FALSE
                       /\ "error" \in DOMAIN validation
                       /\ validation.error # ""
                  ELSE validation.valid = TRUE
        /\ \A i \in 1..Len(AttemptedOperations) :
              LacksKeyOrValues(AttemptedOperations[i]) <=>
                  \E k \in 1..Len(result.errors) :
                      /\ result.errors[k].operationId = AttemptedOperations[i].id
                      /\ result.errors[k].message \in
                            {"no primary key", "undefined primary key value", "no values"}

\* C24 witness: the loop has been through a Delete with an undefined key value, an Insert
\* without values and a valid Update, and recorded an error for the first two only
C24_Witness ==
    /\ LoopCompleted
    /\ Len(batch.operations) = 3
    /\ batch.operations[1].type = "delete"
    /\ batch.operations[1].primaryKeys[1].value = Undefined
    /\ batch.operations[2].type = "insert"
    /\ batch.operations[2].values = <<>>
    /\ batch.operations[3].type = "update"
    /\ Len(batch.operations[3].primaryKeys) = 1
    /\ [k \in 1..Len(result.errors) |-> result.errors[k].operationId] =
          <<batch.operations[1].id, batch.operations[2].id>>
----------------------------------------------------------------------------

\* the placeholders of a statement text, in the order they stand in it
PlaceholdersOf(text) == SelectSeq(text, LAMBDA token : token.kind = "placeholder")

\* the placeholders of a statement text that stand before its WHERE
PlaceholdersBeforeWhere(text) ==
    LET where == CHOOSE k \in 1..Len(text) : text[k] = Keyword("WHERE")
    IN  PlaceholdersOf(SubSeq(text, 1, where - 1))

\* the operation of the batch with the id
OperationWithId(id) ==
    batch.operations[CHOOSE i \in 1..Len(batch.operations) : batch.operations[i].id = id]

\* C25: every statement the handler sends for an operation is the one statement buildQuery
\* emits for it, in which no value is written into the text: the text holds keywords,
\* identifiers and the placeholders $1..$n in order, n being the number of params; an
\* Update has one placeholder per change, before WHERE, then one per primary key, with
\* params = the new values followed by the key values; a Delete has one per primary key
\* with params = the key values; an Insert has one per column with params = the column
\* values in column order.
C25_ValuesOnlyAsBoundParameters ==
    \A k \in 1..Len(OperationStatements) :
        LET sent == OperationStatements[k]
            operation == OperationWithId(sent.operationId)
            placeholders == PlaceholdersOf(sent.text)
        IN  /\ Cardinality({ j \in 1..Len(OperationStatements) :
                               OperationStatements[j].operationId = sent.operationId }) = 1
            /\ [text |-> sent.text, params |-> sent.params] =
                  [text |-> buildQuery(operation, batch.context).sql,
                   params |-> buildQuery(operation, batch.context).params]
            /\ \A i \in 1..Len(sent.text) :
                  sent.text[i].kind \in {"keyword", "identifier", "placeholder"}
            /\ Len(placeholders) = Len(sent.params)
            /\ \A i \in 1..Len(placeholders) : placeholders[i] = Placeholder(i)
            /\ operation.type = "update" =>
                  /\ Len(placeholders) = Len(operation.changes) + Len(operation.primaryKeys)
                  /\ Len(PlaceholdersBeforeWhere(sent.text)) = Len(operation.changes)
                  /\ \A i \in 1..Len(operation.changes) :
                        sent.params[i] = operation.changes[i].newValue
                  /\ \A i \in 1..Len(operation.primaryKeys) :
                        sent.params[Len(operation.changes) + i] = operation.primaryKeys[i].value
            /\ operation.type = "delete" =>
                  /\ Len(placeholders) = Len(operation.primaryKeys)
                  /\ \A i \in 1..Len(operation.primaryKeys) :
                        sent.params[i] = operation.primaryKeys[i].value
            /\ operation.type = "insert" =>
                  /\ Len(placeholders) = Len(operation.columns)
                  /\ \A i \in 1..Len(operation.columns) :
                        sent.params[i] = Prop(operation.values, operation.columns[i].name)

\* C25 witness: the handler has sent the statements of an Update (one change, one key), a
\* Delete (one key) and an Insert (two columns), with 2, 1 and 2 bound parameters
C25_Witness ==
    /\ Len(OperationStatements) = 3
    /\ OperationStatements[1].sql = "update"
    /\ OperationStatements[1].params = <<Str("a"), Num(1)>>
    /\ OperationStatements[2].sql = "delete"
    /\ OperationStatements[2].params = <<Num(2)>>
    /\ OperationStatements[3].sql = "insert"
    /\ OperationStatements[3].params = <<Null, Null>>
    /\ Len(PlaceholdersOf(OperationStatements[3].text)) = 2
----------------------------------------------------------------------------

\* a row of a result that does not include the primary-key column
RowWithoutKey == [c \in {ColEmail} |-> EmptyString]

\* every Update and Delete built for the session has one primaryKeys entry per column of
\* the context's primaryKeyColumns, in order, holding the snapshot's value for the column
\* (undefined when the snapshot has no such column), and passes validateOperation exactly
\* when primaryKeyColumns is non-empty and the snapshot has every key column
KeysFollowContext(tabEdit, seed) ==
    LET built == buildEditBatchOf(tabEdit, TableColumns, seed)
        keyColumns == tabEdit.context.primaryKeyColumns
    IN  built # Null =>
            \A i \in 1..Len(built.operations) :
                LET operation == built.operations[i]
                IN  operation.type \in {"update", "delete"} =>
                        /\ [k \in 1..Len(operation.primaryKeys) |->
                                operation.primaryKeys[k].column] = keyColumns
                        /\ \A k \in 1..Len(operation.primaryKeys) :
                              operation.primaryKeys[k].value =
                                  Prop(operation.originalRow, keyColumns[k])
                        /\ validateOperation(operation).valid <=>
                              /\ keyColumns # <<>>
                              /\ \A k \in 1..Len(keyColumns) :
                                    keyColumns[k] \in DOMAIN operation.originalRow

\* C26 (as claimed): in every session state the store's operations reach, every Update and Delete that
\* buildEditBatch emits has a non-empty primaryKeys array with no undefined value, and so
\* passes validateOperation.
C26_EmittedKeysNonEmptyAndDefined ==
    \A tabId \in Sessions, seed \in Seeds :
        LET built == buildEditBatchOf(tabEdits[tabId], TableColumns, seed)
        IN  built # Null =>
                \A i \in 1..Len(built.operations) :
                    built.operations[i].type \in {"update", "delete"} =>
                        /\ Len(built.operations[i].primaryKeys) > 0
                        /\ \A k \in 1..Len(built.operations[i].primaryKeys) :
                              built.operations[i].primaryKeys[k].value # Undefined
                        /\ validateOperation(built.operations[i]).valid

\* C26 (amended): the store accepts any context; every Update and Delete that
\* buildEditBatch emits has one primaryKeys entry per column of the session context's
\* primaryKeyColumns with the snapshot's value for it, so primaryKeys is non-empty without
\* undefined value, and the operation passes validateOperation, exactly when the
\* context's primaryKeyColumns is non-empty and the snapshot holds every key column --
\* in the session as it is and after a row that lacks the key column is marked deleted.
C26_KeysFollowContext ==
    \A tabId \in Sessions, seed \in Seeds :
        tabEdits[tabId].context # Null =>
            /\ KeysFollowContext(tabEdits[tabId], seed)
            /\ \A rowIndex \in RowIndices :
                  KeysFollowContext(markRowForDeletionState(tabEdits[tabId], rowIndex,
                                                           RowWithoutKey), seed)

\* C26 witness: the session was entered with a context without primary key, its row 1 was
\* edited, and the handler has rejected the Update built for it, whose primaryKeys is
\* empty
C26_Witness ==
    /\ \E tabId \in Sessions :
          /\ tabEdits[tabId].context = NoKeyContext
          /\ HasCellEdit(tabEdits[tabId], 1, ColEmail)
    /\ batch # Null
    /\ batch.context = NoKeyContext
    /\ batch.operations[1].type = "update"
    /\ batch.operations[1].primaryKeys = <<>>
    /\ result # Null
    /\ Len(result.errors) > 0
    /\ result.errors[1] = [operationId |-> batch.operations[1].id, message |-> "no primary key"]
----------------------------------------------------------------------------

\* the changes with the column name in the Updates built for the row with the snapshot
ChangesFor(built, originalRow, columnName) ==
    IF built = Null THEN <<>>
    ELSE LET updates == SelectSeq(built.operations,
                                  LAMBDA o : o.type = "update" /\ o.originalRow = originalRow)
         IN  IF Len(updates) # 1 THEN <<>>
             ELSE SelectSeq(updates[1].changes, LAMBDA change : change.column = columnName)

\* C27: for every CellEdit (rowIndex, col) -> v of a row that is not marked deleted, the
\* row's Update holds exactly one change with column = col, and that change has
\* newValue = v, oldValue = the snapshot's value for col and the dataType columns gives
\* for col, 'text' when col is absent from columns -- whatever the column's name is.
C27_EachCellEditIsOneChange ==
    \A tabId \in Sessions, seed \in Seeds, columns \in ColumnLists, rowIndex \in RowIndices :
        \A columnName \in {ColEmail, ColTag} :
            LET tabEdit == tabEdits[tabId]
            IN  ( /\ tabEdit.context # Null
                  /\ HasCellEdit(tabEdit, rowIndex, columnName)
                  /\ ~IsMarkedDeleted(tabEdit, rowIndex)
                  /\ HasSnapshot(tabEdit, rowIndex) ) =>
                    LET changes == ChangesFor(buildEditBatchOf(tabEdit, columns, seed),
                                              tabEdit.originalRows[rowIndex], columnName)
                    IN  /\ Len(changes) = 1
                        /\ changes[1].newValue =
                              MapGet(tabEdit.modifiedCells, cellKey(rowIndex, columnName))
                        /\ changes[1].oldValue =
                              Prop(tabEdit.originalRows[rowIndex], columnName)
                        /\ changes[1].dataType =
                              IF \E j \in 1..Len(columns) : columns[j].name = columnName
                              THEN (CHOOSE info \in { columns[j] : j \in 1..Len(columns) } :
                                        info.name = columnName).dataType
                              ELSE "text"
----------------------------------------------------------------------------

\* C28: in every reachable state of a session, exitEditMode leaves isEditMode false and
\* the edit cursor null and changes no other field: CellEdits, deletion marks, drafts,
\* snapshots and the context are as before; an enterEditMode after it, with whatever
\* context, finds the same CellEdits, deletion marks, drafts and snapshots.
C28_ExitKeepsPendingDiff ==
    \A tabId \in Sessions :
        LET before == tabEdits[tabId]
            after == exitEditModeState(before)
        IN  /\ DOMAIN after = DOMAIN before
            /\ after.isEditMode = FALSE
            /\ after.editingCell = Null
            /\ after.context = before.context
            /\ DiffOf(after) = DiffOf(before)
            /\ \A context \in {UsersContext, NoKeyContext} :
                  LET again == enterEditModeState(after, context)
                  IN  /\ again.isEditMode = TRUE
                      /\ again.context = context
                      /\ DiffOf(again) = DiffOf(before)

\* C28 witness: a session that has left edit mode still holds its context, a CellEdit with
\* its snapshot and a draft, and exitEditMode has reset the cursor of a session like it
C28_Witness ==
    \E tabId \in Sessions :
        /\ ~tabEdits[tabId].isEditMode
        /\ tabEdits[tabId].context = UsersContext
        /\ tabEdits[tabId].editingCell = Null
        /\ HasCellEdit(tabEdits[tabId], 1, ColEmail)
        /\ HasSnapshot(tabEdits[tabId], 1)
        /\ Len(tabEdits[tabId].newRows) = 1
        /\ \E other \in Sessions :
              /\ tabEdits[other].isEditMode
              /\ tabEdits[other].editingCell # Null
              /\ exitEditModeState(tabEdits[other]) # tabEdits[other]
----------------------------------------------------------------------------

\* the row index a modifiedCells key was made for
KeyRowIndex(key) == parseInt(SplitColon(key)[1])

\* what the session holds for the rows other than rowIndex: their CellEdits, deletion
\* marks and snapshots, in order
OtherRows(tabEdit, rowIndex) ==
    [ modifiedCells     |-> SelectSeq(tabEdit.modifiedCells,
                                      LAMBDA e : KeyRowIndex(e.key) # rowIndex),
      deletedRowIndices |-> SelectSeq(tabEdit.deletedRowIndices, LAMBDA r : r # rowIndex),
      originalRows      |-> [r \in (DOMAIN tabEdit.originalRows) \ {rowIndex} |->
                                tabEdit.originalRows[r]] ]

\* C29: in every reachable state of a session, revertCellChange(r, c) removes the CellEdit
\* (r, c) and no other CellEdit, deletion mark or draft, and revertRowChanges(r) removes
\* row r's CellEdits, deletion mark and snapshot and no draft; after either, the CellEdits,
\* deletion marks and snapshots of every other row are as before -- for r = 1 next to
\* row 11 and for r = 11 next to row 1.
C29_RevertsTouchOnlyTheirRow ==
    \A tabId \in Sessions, rowIndex \in RowIndices :
        LET before == tabEdits[tabId]
            row == revertRowChangesState(before, rowIndex)
        IN  /\ \A columnName \in ColumnNames :
                  LET cell == revertCellChangeState(before, rowIndex, columnName)
                  IN  /\ cell.modifiedCells =
                            SelectSeq(before.modifiedCells,
                                      LAMBDA e : e.key # cellKey(rowIndex, columnName))
                      /\ cell.deletedRowIndices = before.deletedRowIndices
                      /\ cell.newRows = before.newRows
                      /\ OtherRows(cell, rowIndex) = OtherRows(before, rowIndex)
            /\ ~RowHasCellEdit(row, rowIndex)
            /\ ~IsMarkedDeleted(row, rowIndex)
            /\ ~HasSnapshot(row, rowIndex)
            /\ row.newRows = before.newRows
            /\ OtherRows(row, rowIndex) = OtherRows(before, rowIndex)
            /\ row.modifiedCells = OtherRows(before, rowIndex).modifiedCells

\* C29 witness: rows 1 and 11 both hold a CellEdit and a snapshot and row 11 is marked
\* deleted; revertRowChanges(1) and revertCellChange(1, email) change the session and
\* leave row 11's CellEdit, mark and snapshot
C29_Witness ==
    \E tabId \in Sessions :
        /\ HasCellEdit(tabEdits[tabId], 1, ColEmail)
        /\ HasCellEdit(tabEdits[tabId], 11, ColEmail)
        /\ HasSnapshot(tabEdits[tabId], 1)
        /\ HasSnapshot(tabEdits[tabId], 11)
        /\ IsMarkedDeleted(tabEdits[tabId], 11)
        /\ LET row == revertRowChangesState(tabEdits[tabId], 1)
               cell == revertCellChangeState(tabEdits[tabId], 1, ColEmail)
           IN  /\ row # tabEdits[tabId]
               /\ cell # tabEdits[tabId]
               /\ HasCellEdit(row, 11, ColEmail)
               /\ HasCellEdit(cell, 11, ColEmail)
               /\ IsMarkedDeleted(row, 11)
               /\ HasSnapshot(row, 11)
----------------------------------------------------------------------------

\* the operations of the batch that failed validation or whose statement was rejected, as
\* the error entries the loop records for them
OperationFailures ==
    LET failed == SelectSeq(batch.operations,
                            LAMBDA o :
                                \/ ~validateOperation(o).valid
                                \/ \E k \in 1..Len(OperationStatements) :
                                      /\ OperationStatements[k].operationId = o.id
                                      /\ OperationStatements[k].rejected)
    IN  [i \in 1..Len(failed) |-> failed[i].id]

\* the EditResult of the response carries the per-operation outcome
CarriesOperationOutcome ==
    /\ response.data.success = (Len(response.data.errors) = 0)
    /\ [k \in 1..Len(response.data.errors) |-> response.data.errors[k].operationId]
          = OperationFailures

----------------------------------------------------------------------------

\* the operations of the batch are Updates and Deletes that validateOperation accepts
OnlyValidUpdatesAndDeletes(editBatch) ==
    \A i \in 1..Len(editBatch.operations) :
        /\ editBatch.operations[i].type \in {"update", "delete"}
        /\ validateOperation(editBatch.operations[i]).valid

\* C31: an Update or Delete whose statement is accepted and affects 0 rows records no
\* error: the step that sends it leaves errors and the transaction as they were, adds
\* nothing to rowsAffected and moves on in the loop; and when the handler returns after
\* a batch of such operations none of whose statements was rejected, the batch is
\* committed and the EditResult has success = true, no errors and rowsAffected 0.
C31_ZeroRowsAffectedIsSuccess ==
    [][ /\ ( /\ SendsOperationStatement
             /\ batch.operations[opIndex].type \in {"update", "delete"}
             /\ ~queries'[Len(queries')].rejected
             /\ result'.rowsAffected = result.rowsAffected )
           => /\ result'.errors = result.errors
              /\ result'.success = result.success
              /\ transaction' = transaction
              /\ pc' \in {"loop", "finish"}
        /\ ( /\ pc' = "returned"
             /\ response'.success
             /\ OnlyValidUpdatesAndDeletes(batch)
             /\ \A k \in 2..(Len(queries') - 1) : ~queries'[k].rejected
             /\ result.rowsAffected = 0 )
           => /\ response'.data.success = TRUE
              /\ response'.data.errors = <<>>
              /\ response'.data.rowsAffected = 0
              /\ queries'[Len(queries')] = [sql |-> "COMMIT"]
              /\ committed' = BatchOperationIds
      ]_vars

\* C31 witness: the handler returned success = true for a committed batch of an Update
\* and a Delete that affected no row
C31_Witness ==
    /\ pc = "returned"
    /\ response.success
    /\ response.data.success
    /\ response.data.rowsAffected = 0
    /\ Len(batch.operations) = 2
    /\ batch.operations[1].type = "update"
    /\ batch.operations[2].type = "delete"
    /\ committed = BatchOperationIds
----------------------------------------------------------------------------

\* C32: when db.execute returns a transport-level failure (IpcResponse.success = false)
\* no operation of the batch has been committed, and no ROLLBACK is sent once a COMMIT
\* has persisted the batch.
C32_TransportFailureMeansNothingCommitted ==
    /\ (pc = "returned" /\ ~response.success) => committed = {}
    /\ committed # {} => TimesSent("ROLLBACK") = 0
----------------------------------------------------------------------------

\* the CellEdits, deletion marks and drafts of the later state that the earlier state
\* does not hold
AddedSince(before, now) ==
    [ modifiedCells     |-> { now.modifiedCells[i] : i \in 1..Len(now.modifiedCells) }
                            \ { before.modifiedCells[i] : i \in 1..Len(before.modifiedCells) },
      deletedRowIndices |-> { now.deletedRowIndices[i] : i \in 1..Len(now.deletedRowIndices) }
                            \ { before.deletedRowIndices[i] :
                                   i \in 1..Len(before.deletedRowIndices) },
      newRows           |-> { now.newRows[i] : i \in 1..Len(now.newRows) }
                            \ { before.newRows[i] : i \in 1..Len(before.newRows) } ]

\* C33: when a commit succeeds, the clearing of the session's pending changes removes
\* only what was part of the executed batch: a CellEdit, deletion mark or draft that was
\* made between the building of the batch and the response is still pending afterwards.
C33_InFlightEditsSurviveCommit ==
    [][ (commit.pc = "awaiting" /\ commit'.pc = "done" /\ commit'.outcome = "cleared") =>
            LET made == AddedSince(commit.before[commit.tabId], tabEdits[commit.tabId])
                left == AddedSince(getInitialTabEditState, tabEdits'[commit.tabId])
            IN  /\ made.modifiedCells \subseteq left.modifiedCells
                /\ made.deletedRowIndices \subseteq left.deletedRowIndices
                /\ made.newRows \subseteq left.newRows
      ]_vars
----------------------------------------------------------------------------

\* how many operations of the type the batch holds (none when there is no batch)
OperationCount(built, type) ==
    IF built = Null THEN 0
    ELSE Cardinality({ i \in 1..Len(built.operations) : built.operations[i].type = type })

\* C34: for a session that has a context, getPendingChangesCount agrees with
\* buildEditBatch: its updates, deletes and inserts are the numbers of Update, Delete and
\* Insert operations of the batch, and hasPendingChanges is true exactly when
\* buildEditBatch returns a batch.
C34_CountsAgreeWithBatch ==
    \A tabId \in Sessions :
        tabEdits[tabId].context # Null =>
            LET built == buildEditBatchOf(tabEdits[tabId], TableColumns, 1)
                counts == getPendingChangesCount(tabEdits[tabId])
            IN  /\ counts.updates = OperationCount(built, "update")
                /\ counts.deletes = OperationCount(built, "delete")
                /\ counts.inserts = OperationCount(built, "insert")
                /\ hasPendingChanges(tabEdits[tabId]) <=> (built # Null)
----------------------------------------------------------------------------

\* the batch has an Update or Delete whose primary key is that of the row
TargetsRow(built, row) ==
    /\ built # Null
    /\ \E i \in 1..Len(built.operations) :
          /\ built.operations[i].type \in {"update", "delete"}
          /\ Len(built.operations[i].primaryKeys) > 0
          /\ built.operations[i].primaryKeys[1].value = Prop(row, ColId)

\* C35: a pending edit is attributed to the row the user edited. When the session holds
\* a snapshot for a rowIndex and the grid now shows another row at that index, the batch
\* built after updateCellValue or markRowForDeletion at that index with the new
\* originalRow has no Update or Delete whose primaryKeys are those of the snapshot's row.
C35_EditAttributedToShownRow ==
    \A tabId \in Sessions :
        LET existing == tabEdits[tabId]
        IN  existing.context # Null =>
            \A rowIndex \in RowIndices :
                RowsHas(existing.originalRows, rowIndex) =>
                    \A originalRow \in RowVersions(rowIndex) :
                        Prop(originalRow, ColId) # Prop(existing.originalRows[rowIndex], ColId) =>
                            /\ \A value \in SampleValues(ColEmail) :
                                  ~TargetsRow(buildEditBatchOf(
                                       updateCellValueState(existing, rowIndex, ColEmail,
                                                            value, originalRow),
                                       TableColumns, 1),
                                     existing.originalRows[rowIndex])
                            /\ ~TargetsRow(buildEditBatchOf(
                                     markRowForDeletionState(existing, rowIndex, originalRow),
                                     TableColumns, 1),
                                   existing.originalRows[rowIndex])
----------------------------------------------------------------------------

\* C36: the pending diff of a session was recorded under its current context. After
\* enterEditMode with a context that differs from the session's, no CellEdit, deletion
\* mark, draft or snapshot recorded under the old context is left, and buildEditBatch has
\* nothing to pair the new context with.
C36_DiffBelongsToCurrentContext ==
    \A tabId \in Sessions :
        LET existing == tabEdits[tabId]
        IN  existing.context # Null =>
            \A context \in {UsersContext, NoKeyContext} \ {existing.context} :
                LET entered == enterEditModeState(existing, context)
                IN  /\ entered.context = context
                    /\ DiffOf(entered) = EmptyDiff
                    /\ buildEditBatchOf(entered, TableColumns, 1) = Null
----------------------------------------------------------------------------

\* C37: diffs are recorded only for a session in edit mode. updateCellValue,
\* markRowForDeletion and addNewRow on a session that is not in edit mode, or on a tab
\* that has no session yet, leave the pending diff as it was; and a session that has
\* pending changes has a context, from which buildEditBatch builds a batch.
C37_DiffsOnlyInEditMode ==
    /\ \A tabId \in Tabs :
          LET existing == ExistingOrInitial(tabId)
          IN  ~existing.isEditMode =>
                /\ \A rowIndex \in RowIndices :
                      \A originalRow \in RowVersions(rowIndex) :
                          /\ \A value \in SampleValues(ColEmail) :
                                DiffOf(updateCellValueState(existing, rowIndex, ColEmail,
                                                            value, originalRow))
                                    = DiffOf(existing)
                          /\ DiffOf(markRowForDeletionState(existing, rowIndex, originalRow))
                                = DiffOf(existing)
                /\ \A id \in DraftIds :
                      DiffOf(addNewRowState(existing, id, defaultValues)) = DiffOf(existing)
    /\ \A tabId \in Sessions :
          hasPendingChanges(tabEdits[tabId]) =>
              /\ tabEdits[tabId].context # Null
              /\ buildEditBatchOf(tabEdits[tabId], TableColumns, 1) # Null
----------------------------------------------------------------------------

\* C38: an edit cursor is set only while the session is in edit mode. In every
\* reachable state a session's editingCell is null or one cell, and it is null unless
\* the session is in edit mode; startCellEdit on a session that is not in edit mode (or
\* on a tab without session) creates no cursor; exitEditMode leaves no cursor.
C38_CursorOnlyInEditMode ==
    /\ \A tabId \in Sessions :
          /\ tabEdits[tabId].editingCell \in
                {Null} \cup [rowIndex : RowIndices, columnName : ColumnNames]
          /\ tabEdits[tabId].editingCell # Null => tabEdits[tabId].isEditMode
          /\ exitEditModeState(tabEdits[tabId]).editingCell = Null
    /\ \A tabId \in TwoTabs :
          ~ExistingOrInitial(tabId).isEditMode =>
              \A rowIndex \in RowIndices, columnName \in ColumnNames :
                  startCellEditState(ExistingOrInitial(tabId), rowIndex, columnName).editingCell
                      = Null

\* C38 as the store has it: a session's editingCell is null or one cell; a session that
\* leaves edit mode is left without cursor, and exitEditMode leaves none in any state;
\* a cursor appears or moves only by startCellEdit, which sets it on the session as it
\* is, in edit mode or not (the grid renders its editable cells only in edit mode).
C38_CursorSetOnlyByStartCellEdit ==
    [][ \A tabId \in TwoTabs :
          tabId \in DOMAIN tabEdits' =>
            LET before == ExistingOrInitial(tabId)
                after == tabEdits'[tabId]
            IN  /\ after.editingCell \in
                      {Null} \cup [rowIndex : RowIndices, columnName : ColumnNames]
                /\ (before.isEditMode /\ ~after.isEditMode) => after.editingCell = Null
                /\ exitEditModeState(after).editingCell = Null
                /\ (after.editingCell # Null /\ after.editingCell # before.editingCell) =>
                      after = startCellEditState(before, after.editingCell.rowIndex,
                                                 after.editingCell.columnName)
      ]_vars

\* C38 witness: one session has left edit mode and has no cursor; on the other, which
\* never entered edit mode, startCellEdit has set the cursor
C38_Witness ==
    /\ Sessions = TwoTabs
    /\ tabEdits["t1"].context # Null
    /\ ~tabEdits["t1"].isEditMode
    /\ tabEdits["t1"].editingCell = Null
    /\ tabEdits["t2"].context = Null
    /\ ~tabEdits["t2"].isEditMode
    /\ tabEdits["t2"].editingCell = [rowIndex |-> 1, columnName |-> ColEmail]
----------------------------------------------------------------------------

\* the sum of the row counts of the statements in the log
RECURSIVE RowCountSum(_)
RowCountSum(log) ==
    IF log = <<>> THEN 0
    ELSE RowCountSum(SubSeq(log, 1, Len(log) - 1))
         + (IF "rowCount" \in DOMAIN log[Len(log)] THEN log[Len(log)].rowCount ELSE 0)

\* C39: EditResult.rowsAffected counts only persisted rows: in the EditResult of a batch
\* that was rolled back (success = false) it is 0, and in that of a committed batch it is
\* the sum of the row counts of the executed operations.
C39_RowsAffectedCountsPersistedRows ==
    (pc = "returned" /\ response.success) =>
        /\ ~response.data.success => response.data.rowsAffected = 0
        /\ response.data.success => response.data.rowsAffected = RowCountSum(queries)

\* C39 as the handler has it: rowsAffected is at every moment the sum of the row counts
\* of the statements executed so far, and it is returned as it stands whether the batch
\* was committed or rolled back; for a committed batch that is the sum over all its
\* operations, which are then the persisted ones.
C39_RowsAffectedSumsExecutedStatements ==
    /\ result # Null => result.rowsAffected = RowCountSum(queries)
    /\ (pc = "returned" /\ response.success) =>
          /\ response.data.rowsAffected = RowCountSum(queries)
          /\ response.data.success =>
                /\ committed = BatchOperationIds
                /\ \A i \in 1..Len(batch.operations) :
                      /\ queries[i + 1].operationId = batch.operations[i].id
                      /\ ~queries[i + 1].rejected

\* C39 witness: the handler returned the EditResult of a rolled-back batch whose first
\* statement had affected a row before the second was rejected; rowsAffected is 1
C39_Witness ==
    /\ pc = "returned"
    /\ response.success
    /\ ~response.data.success
    /\ Len(batch.operations) = 2
    /\ Len(queries) = 4
    /\ queries[2].rowCount = 1
    /\ queries[3].rejected
    /\ queries[4] = [sql |-> "ROLLBACK"]
    /\ response.data.rowsAffected = 1
    /\ committed = {}
----------------------------------------------------------------------------

\* C40: every invocation of db.execute has awaited client.end() on its client when it
\* returns, on the path of a commit, of a rollback and of a failure of connect, BEGIN,
\* COMMIT or ROLLBACK: the connection of a returned invocation is ended (or, when the
\* catch block's client.end() itself rejected, broken), never still new or connected;
\* an invocation that returns an EditResult has ended it; and the connection is not
\* ended while the handler is still running.
C40_ConnectionEndedBeforeReturn ==
    /\ pc = "returned" => connection \in {"ended", "broken"}
    /\ (pc = "returned" /\ response.success) => connection = "ended"
    /\ pc \notin {"idle", "returned"} => connection \in {"new", "connected"}

\* C40 witness: COMMIT failed, the catch block sent its ROLLBACK and ended the
\* connection before the handler returned the failure
C40_Witness ==
    /\ pc = "returned"
    /\ ~response.success
    /\ response.error = Str("COMMIT failed")
    /\ TimesSent("COMMIT") = 1
    /\ queries[Len(queries)].sql = "ROLLBACK"
    /\ connection = "ended"

====
